---- MODULE Spec2Model ----
(***************************************************************************)
(* The terminal renderer of markdown-kit (package renderer) as a state     *)
(* machine: one Renderer instance, the byte sink it writes to, and the     *)
(* depth-first walk of a Markdown AST that calls one handler per node      *)
(* event.  Byte slices are sequences of one-character strings.             *)
(***************************************************************************)
EXTENDS Integers, Sequences, FiniteSets, TLC

\* ------------------------------------------------------------------ bounds

\* The wrap width a render is configured with when wrapping is on.
WrapWidth == 4

\* The number of AST nodes of the rendered document, the Document included.
MaxNodes == 4

\* The most AST nodes of a document of nested lists.
MaxListNodes == 6

\* A wrap width that the tables of the model fit in.
TableWrapWidth == 12

\* The number of renders one Renderer is used for.
MaxRenders == 2

\* The number of PushStyle calls the handlers of one render make, and the
\* number of them that are unmatched at one time.
MaxStyleCalls == 4
MaxStyleDepth == 3

\* The most Write calls a failing sink accepts before it returns errors.
MaxSinkWrites == 6

\* ------------------------------------------------------------- characters

NL == "\n"

SP == " "

\* The byte 0x60, which a TLA+ string literal cannot hold.
Backtick == "bt"

\* The colours of the themes of the model, with their red, green and blue
\* values as writeColorSGR formats them.
Colours == {"text", "pink", "dark"}

RGB(colour) ==
    CASE colour = "text" -> "215;215;215"
      [] colour = "pink" -> "215;135;175"
      [] colour = "dark" -> "18;18;18"

\* The command strings writeDelta passes to writeSGR.
SGRCommands ==
    {"0", "1", "22", "4", "24", "3", "23"}
        \cup {command \o ";2;" \o RGB(colour) :
                 command \in {"38", "48"}, colour \in Colours}

\* fmt.Sprintf("\033[%sm", command), the escape byte spelt ESC.
SGR(command) == "ESC[" \o command \o "m"

\* Terminal control sequences, each held as one element of a byte sequence.
ControlCodes == {SGR(command) : command \in SGRCommands}

\* The box-drawing runes of "borders", by the names of their accessors.
borders ==
    [topLeft |-> "topLeft", topJoin |-> "topJoin", topRight |-> "topRight",
     middleLeft |-> "middleLeft", middleJoin |-> "middleJoin",
     middleRight |-> "middleRight", bottomLeft |-> "bottomLeft",
     bottomJoin |-> "bottomJoin", bottomRight |-> "bottomRight",
     vertical |-> "vertical", horizontal |-> "horizontal"]

BorderRunes == {borders[name] : name \in DOMAIN borders}

\* A letter outside ASCII: one display column, two bytes in UTF-8.
EAcute == "e-acute"

\* The number of bytes of one element: an escape sequence is written with
\* "ESC" for its first byte, a box-drawing rune takes three bytes.
ByteLen(c) ==
    CASE c \in ControlCodes -> Len(c) - 2
      [] c \in BorderRunes -> 3
      [] c = EAcute -> 2
      [] OTHER -> 1

RECURSIVE NBytes(_)
NBytes(buf) == IF buf = <<>> THEN 0 ELSE ByteLen(Head(buf)) + NBytes(Tail(buf))

\* unicode.IsSpace on the characters of the model.
IsSpace(c) == c \in {SP, NL, "\t"}

Top(stack) == stack[Len(stack)]

Pop(stack) == SubSeq(stack, 1, Len(stack) - 1)

\* stack[:len(stack)-1] and stack[len(stack)-1] in a handler: Go panics when
\* the stack is empty, and the handler's effect is shortened otherwise.
Shortened(s, stack, shortened) ==
    IF stack = <<>> THEN [s EXCEPT !.fault = "out of range"] ELSE shortened

RECURSIVE Repeat(_, _)
Repeat(c, n) == IF n <= 0 THEN <<>> ELSE <<c>> \o Repeat(c, n - 1)

RECURSIVE Concat(_)
Concat(segments) ==
    IF segments = <<>> THEN <<>> ELSE Head(segments) \o Concat(Tail(segments))

\* bytes.IndexByte, 1-based: the position of the first c in buf, 0 when absent.
IndexByte(buf, c) ==
    IF \E i \in DOMAIN buf : buf[i] = c
    THEN CHOOSE i \in DOMAIN buf :
             buf[i] = c /\ \A j \in 1..(i - 1) : buf[j] # c
    ELSE 0

\* strconv.FormatInt(n, 10) for the list indices of the model.
RECURSIVE FormatInt(_)
FormatInt(n) ==
    LET digit == <<"0", "1", "2", "3", "4", "5", "6", "7", "8", "9">>
    IN  IF n < 10 THEN <<digit[n + 1]>>
        ELSE FormatInt(n \div 10) \o <<digit[(n % 10) + 1]>>

\* ------------------------------------------------------------------ state

VARIABLES
    \* Renderer options (set by New, never changed by a render)
    wordWrap, softBreak, theme, images,
    \* Renderer fields
    listStack, openBlocks, wrapping, spanStack, lastSpan, rootSpan, spans,
    prefixStack, prefix, wordBuffer, lineWidth, atNewline, byteOffset, styles,
    tableStack, inImage,
    \* the sink of the render and the outcome of the Render call; sink tells
    \* whether the writer can fail, how many Write calls it still accepts,
    \* whether it has returned an error and after how many visited nodes
    out, fault, sink,
    \* the walk: the open AST nodes, the number of nodes visited, the call's position
    path, nodes, pc,
    \* history of the render: the bytes handed to Write, the positions in
    \* out where beginLine wrote the prefix, the prefix that was active when each
    \* visible line was begun, the output lines that hold bytes written with
    \* wrapping off or a word at least as wide as the wrap width, and the output
    \* lines that hold a word not narrower than the wrap width less the prefix
    given, prefixAt, lineBegins, rawLines, tightLines,
    \* history of the styles: the number of PushStyle calls not yet matched by
    \* a PopStyle call, and what the last style call was with the terminal's
    \* attributes before the last PushStyle
    pushes, styleTrail,
    \* the number of Render calls this Renderer has completed
    renders,
    \* the kitty graphics codec: the image or buffer it was called with, what
    \* Encode wrote, and where DecodeCommands and DecodeCommand are
    kitty,
    \* the MarkdownView: its spans in preorder and its selection
    view,
    \* history of the calls a handler or a program makes on the exported
    \* methods of the Renderer: how many there were, and the last one's name,
    \* argument, returned count and the line prefix it found
    api,
    \* the indexer of a document's headings: the nodes it walks, the Sections
    \* it has allocated, its section stack and its map from anchors to Sections
    index

vars == <<wordWrap, softBreak, listStack, openBlocks, wrapping, spanStack,
          lastSpan, rootSpan, spans, prefixStack, prefix, wordBuffer, lineWidth,
          atNewline, byteOffset, out, fault, path, nodes, pc, given, prefixAt,
          lineBegins, rawLines, tightLines, theme, styles, pushes, styleTrail,
          renders, tableStack, images, inImage, sink, kitty, view,
          api, index>>

\* The renderer, its sink and the history as one record, threaded through the
\* statements of a handler; ret holds the last call's returned byte count
\* and stop that the handler has returned WalkStop with a nil error.
Cur ==
    [wordWrap |-> wordWrap, softBreak |-> softBreak, listStack |-> listStack,
     openBlocks |-> openBlocks, wrapping |-> wrapping, spanStack |-> spanStack,
     lastSpan |-> lastSpan, rootSpan |-> rootSpan, spans |-> spans,
     prefixStack |-> prefixStack, prefix |-> prefix, wordBuffer |-> wordBuffer,
     lineWidth |-> lineWidth, atNewline |-> atNewline, byteOffset |-> byteOffset,
     out |-> out, fault |-> fault, given |-> given, prefixAt |-> prefixAt,
     lineBegins |-> lineBegins, rawLines |-> rawLines,
     tightLines |-> tightLines, theme |-> theme, styles |-> styles,
     pushes |-> pushes, styleTrail |-> styleTrail, tableStack |-> tableStack,
     images |-> images, inImage |-> inImage, sink |-> sink, api |-> api,
     ret |-> 0, stop |-> FALSE]

Commit(s) ==
    /\ listStack' = s.listStack
    /\ openBlocks' = s.openBlocks
    /\ wrapping' = s.wrapping
    /\ spanStack' = s.spanStack
    /\ lastSpan' = s.lastSpan
    /\ rootSpan' = s.rootSpan
    /\ spans' = s.spans
    /\ prefixStack' = s.prefixStack
    /\ prefix' = s.prefix
    /\ wordBuffer' = s.wordBuffer
    /\ lineWidth' = s.lineWidth
    /\ atNewline' = s.atNewline
    /\ byteOffset' = s.byteOffset
    /\ out' = s.out
    /\ fault' = s.fault
    /\ given' = s.given
    /\ prefixAt' = s.prefixAt
    /\ lineBegins' = s.lineBegins
    /\ rawLines' = s.rawLines
    /\ tightLines' = s.tightLines
    /\ styles' = s.styles
    /\ pushes' = s.pushes
    /\ styleTrail' = s.styleTrail
    /\ renders' = renders
    /\ tableStack' = s.tableStack
    /\ inImage' = s.inImage
    /\ sink' = s.sink
    /\ api' = s.api
    /\ UNCHANGED <<wordWrap, softBreak, theme, images, kitty, view, index>>

\* The handler goes on to its next statement: nothing has panicked or
\* returned an error, and the handler has not returned.
\* An operator that does nothing after a fault or a stop tests the two
\* fields where it begins, which keeps the evaluation of a long handler shallow.
Ok(s) == s.fault = "none" /\ ~s.stop

\* What the walk does with a handler's return values.
Outcome(s) ==
    IF s.fault # "none" THEN "faulted"
    ELSE IF s.stop THEN "stopped"
    ELSE "walking"

\* A writer that never returns an error, such as a bytes.Buffer.
NeverFails == [fails |-> FALSE, left |-> 0, failed |-> FALSE, at |-> 0]

\* A writer that returns an error from every Write call after the first n.
FailsAfter(n) == [fails |-> TRUE, left |-> n, failed |-> FALSE, at |-> 0]

\* The Write calls out of want that the sink of s accepts.
Accepted(s, want) ==
    IF s.sink.fails /\ s.sink.left < want THEN s.sink.left ELSE want

\* The sink after it was handed want Write calls in a row.
Handed(s, want) ==
    IF ~s.sink.fails THEN s.sink
    ELSE IF s.sink.left < want
    THEN [s.sink EXCEPT !.left = 0, !.failed = TRUE,
                        !.at = IF s.sink.failed THEN @ ELSE nodes]
    ELSE [s.sink EXCEPT !.left = @ - want]

\* The number of the output line the next byte goes to.
LineNo(o) == Len(SelectSeq(o, LAMBDA c : c = NL)) + 1

\* ------------------------------------------------------- the line writer

\* Renderer.measureText: the display columns of buf, control codes skipped.
measureText(buf) == Len(SelectSeq(buf, LAMBDA c : c \notin ControlCodes))

\* Renderer.WordWrap
WordWrap(s) == s.wordWrap > 0 /\ Len(s.wrapping) > 0 /\ Top(s.wrapping)

\* Renderer.PushWordWrap
PushWordWrap(s, wrap) ==
    IF s.stop \/ s.fault # "none" THEN s ELSE [s EXCEPT !.wrapping = Append(@, wrap)]

\* Renderer.PopWordWrap
PopWordWrap(s) ==
    IF s.stop \/ s.fault # "none" THEN s
    ELSE Shortened(s, s.wrapping, [s EXCEPT !.wrapping = Pop(@)])

\* Renderer.beginLine: writes the line prefix unless the current block is a
\* paragraph that has already written something.
beginLine(s) ==
    IF s.stop \/ s.fault # "none" THEN s
    ELSE IF /\ Len(s.openBlocks) # 0
            /\ Top(s.openBlocks).kind = "Paragraph"
            /\ ~Top(s.openBlocks).fresh
    THEN s
    ELSE IF Accepted(s, 1) = 0
    THEN [s EXCEPT !.sink = Handed(s, 1), !.fault = "write error"]
    ELSE IF NBytes(s.prefix) = 0 THEN [s EXCEPT !.sink = Handed(s, 1)]
    ELSE [s EXCEPT !.sink = Handed(s, 1),
                   !.out = @ \o s.prefix,
                   !.prefixAt = Append(@, Len(s.out) + 1),
                   !.atNewline = (Top(s.prefix) = NL),
                   !.lineWidth = IF Top(s.prefix) = NL THEN @ ELSE NBytes(s.prefix),
                   !.byteOffset = @ + NBytes(s.prefix)]

\* The current block's "fresh" flag cleared (the end of write's loop body).
Stale(blocks) ==
    IF Len(blocks) = 0 THEN blocks
    ELSE [blocks EXCEPT ![Len(blocks)].fresh = FALSE]

\* The head of write's loop body: a line that gets visible content while the
\* cursor is at a line start is begun with the prefix.
writeBegin(s, head) ==
    IF s.atNewline /\ measureText(head) # 0
    THEN beginLine([s EXCEPT !.lineBegins =
                       Append(@, [pos |-> Len(s.out) + 1, prefix |-> s.prefix])])
    ELSE s

\* The padding write needs for a line that is remaining columns short.
Padding(wrap, remaining) ==
    IF remaining < 0 THEN wrap - ((-remaining) % wrap) ELSE remaining

\* The Write calls of one line: the head, the padding if any, the newline.
LineChunks(wrap, head, hasNewline, remaining) ==
    IF ~hasNewline THEN <<head>>
    ELSE IF remaining = 0 THEN <<head, <<NL>>>>
    ELSE <<head, Repeat(SP, Padding(wrap, remaining)), <<NL>>>>

\* The line that write ends with the last of these Write calls, the line
\* being width columns wide before them: the width of its content, as
\* write measures it, and its width with the padding.
LineEnded(width, chunks) ==
    [content |-> width + measureText(Head(chunks)),
     padded |-> width + measureText(Concat(Pop(chunks)))]

\* write's loop body from "w.Write(buf[:newline])" on when the sink accepts
\* the first taken of the line's Write calls.
LineTaken(s, head, hasNewline, chunks, taken) ==
    [s EXCEPT !.sink = Handed(s, Len(chunks)),
              !.out = @ \o Concat(SubSeq(chunks, 1, taken)),
              !.fault = IF taken < Len(chunks) THEN "write error" ELSE @,
              !.ret = @ + NBytes(head),
              !.atNewline = (@ /\ measureText(head) = 0)
                            \/ (hasNewline /\ taken = Len(chunks)),
              !.lineWidth = IF (s.atNewline /\ measureText(head) = 0)
                               \/ (hasNewline /\ taken = Len(chunks))
                            THEN 0 ELSE @ + measureText(head),
              !.openBlocks = Stale(@),
              !.api.line = IF hasNewline /\ taken = Len(chunks)
                           THEN LineEnded(s.lineWidth, chunks)
                           ELSE @]

\* write's loop body from "w.Write(buf[:newline])" on, the line being
\* remaining columns short of the wrap width.
LineWritten(s, head, hasNewline, remaining) ==
    IF Accepted(s, 1) = 0
    THEN [s EXCEPT !.sink = Handed(s, 1), !.fault = "write error",
                   !.lineWidth = IF s.atNewline THEN 0 ELSE @,
                   !.openBlocks = Stale(@)]
    ELSE IF hasNewline /\ remaining < 0 /\ s.wordWrap = 0
    THEN [s EXCEPT !.sink = Handed(s, 1), !.out = @ \o head,
                   !.fault = "divide by zero"]
    ELSE LineTaken(s, head, hasNewline,
                   LineChunks(s.wordWrap, head, hasNewline, remaining),
                   Accepted(s, IF ~hasNewline THEN 1
                               ELSE IF remaining = 0 THEN 2 ELSE 3))

\* The rest of write's loop body: head goes to the sink; a newline that
\* follows it is preceded by the padding to the wrap width.  With wordWrap = 0
\* the padding of a line that holds anything divides by zero.  The sink may
\* return an error from the Write call of the head, of the padding or of the
\* newline; what it has accepted by then stays written.
writeLine(s, head, hasNewline) ==
    LineWritten(s, head, hasNewline,
                s.wordWrap - (s.lineWidth + measureText(head)))

\* Renderer.write: buf goes to the sink line by line.  ret accumulates the
\* returned count, which leaves out the newlines.
RECURSIVE write(_, _)
write(s, buf) ==
    IF s.stop \/ s.fault # "none" \/ buf = <<>> THEN s
    ELSE
      LET newline == IndexByte(buf, NL)
          head == IF newline # 0 THEN SubSeq(buf, 1, newline - 1) ELSE buf
          rest == IF newline # 0 THEN SubSeq(buf, newline + 1, Len(buf)) ELSE <<>>
      IN  write(writeLine(writeBegin(s, head), head, newline # 0), rest)

\* The output lines that t wrote to since s, marked as holding unwrapped content.
MarkRaw(s, t) == [t EXCEPT !.rawLines = @ \cup (LineNo(s.out) .. LineNo(t.out))]

\* The output line s has just written to, marked as holding a word that is not
\* narrower than the room the prefix leaves.
MarkTight(s) == [s EXCEPT !.tightLines = @ \cup {LineNo(s.out)}]

\* The byte offset and the returned count advanced by one character.
advance(s, c) ==
    IF s.stop \/ s.fault # "none" THEN s
    ELSE [s EXCEPT !.byteOffset = @ + ByteLen(c), !.ret = @ + ByteLen(c)]

\* flushWordBuffer without the newline before a word that would reach the
\* wrap point.
flushNewlineNever(s) == s

\* The newline Renderer.flushWordBuffer writes before a word that would reach
\* the wrap point.
flushNewline(s) ==
    IF s.lineWidth > 0 /\ s.lineWidth + measureText(s.wordBuffer) >= s.wordWrap
    THEN advance(write(s, <<NL>>), NL)
    ELSE s

\* The end of Renderer.flushWordBuffer, from s to t: the buffer is reset.
flushReset(s, t) ==
    IF t.stop \/ t.fault # "none" THEN t
    ELSE IF s.wordBuffer # <<>> /\ measureText(s.wordBuffer) >= s.wordWrap
    THEN MarkRaw(t, [t EXCEPT !.wordBuffer = <<>>])
    ELSE IF s.wordBuffer # <<>>
            /\ Len(s.prefix) + measureText(s.wordBuffer) >= s.wordWrap
    THEN MarkTight([t EXCEPT !.wordBuffer = <<>>])
    ELSE [t EXCEPT !.wordBuffer = <<>>]

\* Renderer.flushWordBuffer
flushWordBuffer(s) ==
    IF s.stop \/ s.fault # "none" THEN s
    ELSE flushReset(s, write(flushNewline(s), s.wordBuffer))

\* One whitespace character in the wrapping half of Write, from s to t.
\* What flushWordBuffer and write return is dropped: "written" stays as it is.
wrappedSpace(s, t, c) ==
    [(IF Ok(t) /\ c # NL /\ Len(s.prefix) + 1 > s.wordWrap
      THEN MarkTight(t) ELSE t) EXCEPT !.ret = s.ret]

\* One character in the wrapping half of Write.
wrappedRune(s, c) ==
    IF IsSpace(c)
    THEN wrappedSpace(s, write(flushWordBuffer(s), <<c>>), c)
    ELSE [s EXCEPT !.wordBuffer = Append(@, c)]

\* The wrapping half of Renderer.Write: whitespace flushes the word buffer and
\* is written, anything else is buffered; the byte offset advances either way.
RECURSIVE WriteWrapped(_, _)
WriteWrapped(s, buf) ==
    IF s.stop \/ s.fault # "none" \/ buf = <<>> THEN s
    ELSE WriteWrapped(advance(wrappedRune(s, Head(buf)), Head(buf)), Tail(buf))

\* The end of the non-wrapping half of Write, from s to t: the byte offset
\* advances by what write returned.
directDone(s, t, buf) ==
    IF t.stop \/ t.fault # "none" THEN t
    ELSE IF buf # <<>>
    THEN MarkRaw(s, [t EXCEPT !.byteOffset = @ + t.ret])
    ELSE [t EXCEPT !.byteOffset = @ + t.ret]

\* The non-wrapping half of Write once a pending word is flushed.
WriteDirect(s, buf) == directDone(s, write([s EXCEPT !.ret = 0], buf), buf)

\* Renderer.Write
Write(s, buf) ==
    IF s.stop \/ s.fault # "none" THEN s
    ELSE IF ~WordWrap(s)
    THEN WriteDirect(IF Len(s.wordBuffer) > 0
                     THEN flushWordBuffer([s EXCEPT !.given = @ \o buf])
                     ELSE [s EXCEPT !.given = @ \o buf],
                     buf)
    ELSE WriteWrapped([s EXCEPT !.given = @ \o buf, !.ret = 0], buf)

\* Renderer.WriteByte
WriteByte(s, c) == Write(s, <<c>>)

\* Renderer.WriteString
WriteString(s, str) == Write(s, str)

\* "if !r.atNewline { WriteByte('\n') }", as CloseBlock and RenderHeading have it.
WriteNewlineUnlessAtNewline(s) == IF ~s.atNewline THEN WriteByte(s, NL) ELSE s

\* A write that a condition of the handler guards.
WriteIf(s, cond, buf) == IF cond THEN Write(s, buf) ELSE s

\* ------------------------------------------------------------ the prefix

\* Renderer.PushPrefix
PushPrefix(s, p) ==
    IF s.stop \/ s.fault # "none" THEN s
    ELSE [s EXCEPT !.prefixStack = Append(@, p), !.prefix = @ \o p]

\* Renderer.PushIndent
PushIndent(s, amount) == PushPrefix(s, Repeat(SP, amount))

\* PopPrefix without "r.prefix = r.prefix[:len(r.prefix)-len(...)]".
PopPrefixKeepsText(s) ==
    IF s.stop \/ s.fault # "none" THEN s
    ELSE [s EXCEPT !.prefixStack = Pop(@)]

\* Renderer.PopPrefix
PopPrefix(s) ==
    IF s.stop \/ s.fault # "none" THEN s
    ELSE Shortened(s, s.prefixStack,
             [s EXCEPT !.prefix = SubSeq(@, 1, Len(@) - Len(Top(s.prefixStack))),
                       !.prefixStack = Pop(@)])

\* ----------------------------------------------------------- the span tree

\* A nil *NodeSpan.
Nil == 0

\* The spans once span number id is linked in: the last child of its parent,
\* the successor of the span opened before it.
Linked(old, id, span) ==
    [i \in 1 .. id |->
        IF i = id THEN span
        ELSE [old[i] EXCEPT
                 !.Children = IF i = span.Parent THEN Append(@, id) ELSE @,
                 !.Next = IF i = span.Prev THEN id ELSE @]]

\* OpenSpan without "r.lastSpan = span".
OpenSpanUnchained(s, node) ==
    IF s.stop \/ s.fault # "none" THEN s
    ELSE
      LET id == Len(s.spans) + 1
          parent == IF Len(s.spanStack) # 0 THEN Top(s.spanStack) ELSE Nil
      IN  [s EXCEPT !.spans = Linked(@, id,
                        [Start |-> s.byteOffset, End |-> 0, Node |-> node,
                         Parent |-> parent, Next |-> Nil, Prev |-> s.lastSpan,
                         Children |-> <<>>]),
                    !.rootSpan = IF parent = Nil THEN id ELSE @,
                    !.spanStack = Append(@, id)]

\* Renderer.OpenSpan: the new span is the last child of the span stack's top
\* (the root when the stack is empty) and follows lastSpan in the preorder list.
OpenSpan(s, node) ==
    IF s.stop \/ s.fault # "none" THEN s
    ELSE
      LET id == Len(s.spans) + 1
          parent == IF Len(s.spanStack) # 0 THEN Top(s.spanStack) ELSE Nil
      IN  [s EXCEPT !.spans = Linked(@, id,
                        [Start |-> s.byteOffset, End |-> 0, Node |-> node,
                         Parent |-> parent, Next |-> Nil, Prev |-> s.lastSpan,
                         Children |-> <<>>]),
                    !.rootSpan = IF parent = Nil THEN id ELSE @,
                    !.lastSpan = id,
                    !.spanStack = Append(@, id)]

\* CloseSpan without "span.End = r.byteOffset".
CloseSpanUnstamped(s) ==
    IF s.stop \/ s.fault # "none" THEN s
    ELSE Shortened(s, s.spanStack, [s EXCEPT !.spanStack = Pop(@)])

\* Renderer.CloseSpan
CloseSpan(s) ==
    IF s.stop \/ s.fault # "none" THEN s
    ELSE Shortened(s, s.spanStack,
             [s EXCEPT !.spanStack = Pop(@),
                       !.spans[Top(s.spanStack)].End = s.byteOffset])

\* ------------------------------------------------------------- the styles

\* A nil *chroma.Style.
NoTheme == "nil"

\* chroma.StyleEntry: two colours and three trileans.
ZeroStyle ==
    [Colour |-> "unset", Background |-> "unset",
     Bold |-> "Pass", Underline |-> "Pass", Italic |-> "Pass"]

StyleEntry(colour, background, bold, underline, italic) ==
    [Colour |-> colour, Background |-> background,
     Bold |-> bold, Underline |-> underline, Italic |-> italic]

\* theme.Get(token) for two themes.  "sparse" has entries for a few token
\* types only and none for Background or Text, so every other token type
\* resolves to the zero style; "full" is styles.Pulumi, where every token type
\* inherits the colour of Text and the background of Background.
ThemeGet(name, token) ==
    IF name = "sparse"
    THEN CASE token = "GenericHeading" ->
                  StyleEntry("pink", "unset", "Yes", "Pass", "Pass")
           [] token = "GenericSubheading" ->
                  StyleEntry("pink", "unset", "Pass", "Pass", "Pass")
           [] token = "GenericEmph" ->
                  StyleEntry("unset", "unset", "Pass", "Pass", "Yes")
           [] token = "GenericUnderline" ->
                  StyleEntry("unset", "unset", "Pass", "Yes", "Pass")
           [] OTHER -> ZeroStyle
    ELSE CASE token = "GenericHeading" ->
                  StyleEntry("pink", "dark", "Yes", "Pass", "Pass")
           [] token = "GenericSubheading" ->
                  StyleEntry("pink", "dark", "Pass", "Pass", "Pass")
           [] token = "GenericEmph" ->
                  StyleEntry("text", "dark", "Pass", "Pass", "Yes")
           [] token = "GenericUnderline" ->
                  StyleEntry("text", "dark", "Pass", "Yes", "Pass")
           [] OTHER -> StyleEntry("text", "dark", "Pass", "Pass", "Pass")

Themes == {"sparse", "full"}

\* chroma.StyleEntry.IsZero
IsZero(entry) == entry = ZeroStyle

\* chroma.Colour.IsSet
IsSet(colour) == colour # "unset"

\* What a terminal shows after an SGR code: 0 resets every attribute, 38 and
\* 48 set the foreground and the background, 1/22, 4/24 and 3/23 switch bold,
\* underline and italic on and off.
DefaultAttrs ==
    [fg |-> "default", bg |-> "default",
     bold |-> FALSE, underline |-> FALSE, italic |-> FALSE]

ApplySGR(attrs, code) ==
    CASE code = SGR("0") -> DefaultAttrs
      [] code = SGR("1") -> [attrs EXCEPT !.bold = TRUE]
      [] code = SGR("22") -> [attrs EXCEPT !.bold = FALSE]
      [] code = SGR("4") -> [attrs EXCEPT !.underline = TRUE]
      [] code = SGR("24") -> [attrs EXCEPT !.underline = FALSE]
      [] code = SGR("3") -> [attrs EXCEPT !.italic = TRUE]
      [] code = SGR("23") -> [attrs EXCEPT !.italic = FALSE]
      [] \E c \in Colours : code = SGR("38;2;" \o RGB(c)) ->
             [attrs EXCEPT !.fg = CHOOSE c \in Colours : code = SGR("38;2;" \o RGB(c))]
      [] \E c \in Colours : code = SGR("48;2;" \o RGB(c)) ->
             [attrs EXCEPT !.bg = CHOOSE c \in Colours : code = SGR("48;2;" \o RGB(c))]
      [] OTHER -> attrs

\* The attributes of a terminal that has received these bytes.
RECURSIVE TerminalFrom(_, _)
TerminalFrom(attrs, bytes) ==
    IF bytes = <<>> THEN attrs
    ELSE TerminalFrom(ApplySGR(attrs, Head(bytes)), Tail(bytes))

\* The control codes among bytes that follow the last reset, which are the
\* ones that what the terminal shows depends on.
SinceReset(bytes) ==
    LET codes == SelectSeq(bytes, LAMBDA c : c \in ControlCodes)
        resets == {i \in DOMAIN codes : codes[i] = SGR("0")}
    IN  IF resets = {} THEN codes
        ELSE SubSeq(codes,
                    (CHOOSE i \in resets : \A j \in resets : j <= i) + 1,
                    Len(codes))

Terminal(bytes) == TerminalFrom(DefaultAttrs, SinceReset(bytes))

\* Renderer.writeSGR
writeSGR(s, command) == Write(s, <<SGR(command)>>)

\* Renderer.writeTristateSGR: the command it hands to writeSGR.
writeTristateSGR(off, on, value) == IF value = "Yes" THEN on ELSE off

\* Renderer.writeColorSGR: the command it hands to writeSGR.
writeColorSGR(command, color) == command \o ";2;" \o RGB(color)

\* One guarded step of writeDelta for a colour.
ColourDelta(command, base, baseColour, newColour) ==
    IF IsSet(newColour) /\ (IsZero(base) \/ newColour # baseColour)
    THEN <<writeColorSGR(command, newColour)>>
    ELSE <<>>

\* One guarded step of writeDelta for a trilean.
TristateDelta(off, on, base, baseValue, newValue) ==
    IF IsZero(base) \/ newValue # baseValue
    THEN <<writeTristateSGR(off, on, newValue)>>
    ELSE <<>>

\* The commands writeDelta hands to writeSGR, in the order of its statements.
DeltaCommands(base, new) ==
    IF IsZero(new) THEN <<"0">>
    ELSE ColourDelta("48", base, base.Background, new.Background)
         \o ColourDelta("38", base, base.Colour, new.Colour)
         \o TristateDelta("22", "1", base, base.Bold, new.Bold)
         \o TristateDelta("24", "4", base, base.Underline, new.Underline)
         \o TristateDelta("23", "3", base, base.Italic, new.Italic)

\* The writeSGR calls of writeDelta, one Write each.
RECURSIVE writeSGRs(_, _)
writeSGRs(s, commands) ==
    IF commands = <<>> THEN s
    ELSE writeSGRs(writeSGR(s, Head(commands)), Tail(commands))

\* Renderer.writeDelta
writeDelta(s, base, new) == writeSGRs(s, DeltaCommands(base, new))

\* The end of PushStyle: the resolved entry is on the stack.
StylePushed(s, entry) ==
    IF s.stop \/ s.fault # "none" THEN s ELSE [s EXCEPT !.styles = Append(@, entry)]

\* A PushStyle call noted in the history, with the terminal as it is before it.
NotePush(s, token) ==
    [s EXCEPT !.pushes = @ + 1,
              !.styleTrail = [call |-> "push", before |-> Terminal(s.out),
                              zero |-> IsZero(ThemeGet(s.theme, token)),
                              calls |-> @.calls + 1]]

\* A PopStyle call noted in the history.
NotePop(s) ==
    [s EXCEPT !.pushes = @ - 1,
              !.styleTrail = [call |-> IF @.call = "push" THEN "pop after push"
                                       ELSE "pop",
                              before |-> @.before, zero |-> @.zero,
                              calls |-> @.calls]]

\* The entry PushStyle pushes: a trilean the token's style passes on is the
\* base's.
Resolved(tokenStyle, base) ==
    [tokenStyle EXCEPT
        !.Bold = IF @ = "Pass" THEN base.Bold ELSE @,
        !.Underline = IF @ = "Pass" THEN base.Underline ELSE @,
        !.Italic = IF @ = "Pass" THEN base.Italic ELSE @]

\* PushStyle from "writeDelta" on.
PushResolved(s, token, base, resolved) ==
    StylePushed(writeDelta(NotePush(s, token), base, resolved), resolved)

\* PushStyle from "tokenStyle.IsZero()" on.
PushEntry(s, token, tokenStyle, base) ==
    IF IsZero(tokenStyle) THEN NotePush(s, token)
    ELSE PushResolved(s, token, base, Resolved(tokenStyle, base))

\* Renderer.PushStyle
PushStyle(s, token) ==
    IF s.stop \/ s.fault # "none" \/ s.theme = NoTheme THEN s
    ELSE PushEntry(s, token, ThemeGet(s.theme, token),
                   IF Len(s.styles) # 0 THEN Top(s.styles) ELSE ZeroStyle)

\* The end of PopStyle: the top entry is off the stack.
StylePopped(s) == IF s.stop \/ s.fault # "none" THEN s ELSE [s EXCEPT !.styles = Pop(@)]

\* Renderer.PopStyle.  Indexing the empty stack is a runtime panic.
PopStyle(s) ==
    IF s.stop \/ s.fault # "none" \/ s.theme = NoTheme THEN s
    ELSE IF Len(s.styles) = 0
    THEN [NotePop(s) EXCEPT !.fault = "index out of range"]
    ELSE StylePopped(writeDelta(NotePop(s), Top(s.styles),
                                IF Len(s.styles) > 1
                                THEN s.styles[Len(s.styles) - 1]
                                ELSE ZeroStyle))

\* ------------------------------------------------------------- the blocks

\* node.HasBlankPreviousLines as OpenBlock corrects it for a first child.
HasBlankPreviousLines(node, parent, first) ==
    IF first /\ (parent.kind \in {"Document", "ListItem"} \/ parent.blank)
    THEN FALSE
    ELSE node.blank

\* The end of OpenBlock: the block is fresh again after its leading bytes.
Freshen(s) ==
    IF s.stop \/ s.fault # "none" THEN s
    ELSE [s EXCEPT !.openBlocks[Len(s.openBlocks)].fresh = TRUE]

\* The open-block record pushed.
PushBlock(s, node) ==
    IF s.stop \/ s.fault # "none" THEN s
    ELSE [s EXCEPT !.openBlocks = Append(@, [kind |-> node.kind, fresh |-> TRUE])]

\* Renderer.OpenBlock.  node and parent carry Kind and HasBlankPreviousLines;
\* first says that node is its parent's first child; ws is the node's
\* leading whitespace.
OpenBlock(s, node, parent, first, ws) ==
    LET s1 == PushBlock(OpenSpan(s, node), node)
        s2 == WriteIf(s1, HasBlankPreviousLines(node, parent, first), <<NL>>)
        s3 == WriteIf(s2, Len(ws) # 0, ws)
    IN  Freshen(s3)

\* The open-block record popped.
PopBlock(s) ==
    IF s.stop \/ s.fault # "none" THEN s
    ELSE Shortened(s, s.openBlocks, [s EXCEPT !.openBlocks = Pop(@)])

\* Renderer.CloseBlock
CloseBlock(s) == CloseSpan(PopBlock(WriteNewlineUnlessAtNewline(s)))

\* Renderer.writeLines
RECURSIVE writeLines(_, _)
writeLines(s, lines) ==
    IF lines = <<>> THEN s ELSE writeLines(Write(s, Head(lines)), Tail(lines))

\* Renderer.writeCodeLines with no theme
writeCodeLines(s, language, lines) == writeLines(s, lines)

\* Renderer.writeCode with no theme
writeCode(s, language, code) == WriteString(s, code)

\* util.FirstNonSpacePosition, 1-based: 0 when text holds no byte other than
\* spaces and tabs before its end or its first newline.
RECURSIVE FirstNonSpacePosition(_)
FirstNonSpacePosition(text) ==
    IF text = <<>> \/ Head(text) = NL THEN 0
    ELSE IF Head(text) \in {SP, "\t"}
         THEN LET i == FirstNonSpacePosition(Tail(text))
              IN  IF i = 0 THEN 0 ELSE i + 1
         ELSE 1

\* The loop of Renderer.shouldPadCodeSpan: the first child segment that holds
\* a non-space byte, or the last segment with found = FALSE.
RECURSIVE FirstSolidSegment(_)
FirstSolidSegment(segments) ==
    IF FirstNonSpacePosition(Head(segments)) # 0
    THEN [found |-> TRUE, text |-> Head(segments)]
    ELSE IF Len(segments) = 1
         THEN [found |-> FALSE, text |-> Head(segments)]
         ELSE FirstSolidSegment(Tail(segments))

\* Renderer.shouldPadCodeSpan over the texts of the code span's children.
shouldPadCodeSpan(segments) ==
    IF segments = <<>> THEN FALSE
    ELSE
      LET first == Head(segments)
          firstChar == IF Len(first) > 0 THEN first[1] ELSE "NUL"
          hit == FirstSolidSegment(segments)
          lastChar == IF Len(hit.text) > 0 THEN hit.text[Len(hit.text)] ELSE "NUL"
      IN  /\ hit.found
          /\ (firstChar = Backtick \/ firstChar = SP
                \/ lastChar = Backtick \/ lastChar = SP)

\* ------------------------------------------------------ the document walked

\* The values a handler reads from its node.  A Text node: its segment and
\* its line-break flag.
TextInputs ==
    { [value |-> <<"a", "b">>, break |-> "none"],
      [value |-> <<"a", "b">>, break |-> "soft"],
      [value |-> <<"a", "b">>, break |-> "hard"],
      [value |-> <<"c", SP, "d">>, break |-> "none"],
      [value |-> <<"c", SP, "d">>, break |-> "soft"],
      [value |-> <<"e", "f", "g", "h", "i">>, break |-> "none"] }

\* A Heading node: Level and IsSetext.
HeadingInputs ==
    { [level |-> 1, setext |-> FALSE], [level |-> 2, setext |-> TRUE] }

\* An Emphasis node: Marker and Level.
EmphasisInputs == { [marker |-> "*", level |-> 1] }

\* A CodeSpan node: Backticks and the segments of its Text children.
CodeSpanInputs == { [backticks |-> 1, segments |-> << <<"x">> >>] }

\* A FencedCodeBlock node: Fence, Language and Lines; the last line of a
\* block that the end of the source closes has no newline.
FencedCodeBlockInputs ==
    { [fence |-> <<"~", "~", "~">>, language |-> <<>>, lines |-> << <<"x", NL>> >>],
      [fence |-> <<"~", "~", "~">>, language |-> <<>>, lines |-> << <<"x">> >>] }

\* A List node: Marker, IsOrdered and Start.
ListInputs ==
    { [marker |-> "-", ordered |-> FALSE, index |-> 0],
      [marker |-> ".", ordered |-> TRUE, index |-> 1] }

\* A ListItem node: Offset, the column of its content.
ListItemOffsets == {2, 3}

\* The leading whitespace of a block node.
LeadingWhitespace == { <<>> }

BlockParents == {"Document", "Blockquote", "ListItem"}

InlineParents == {"Paragraph", "Heading", "Emphasis", "Link", "Image"}

\* An open node of the walk: what its exit handler and its children's
\* handlers read from it (kind, blank, attr) and its children so far.
Entry(kind, blank, attr) ==
    [kind |-> kind, id |-> nodes + 1, blank |-> blank, attr |-> attr,
     nkids |-> 0, lastKid |-> "none", lastBreak |-> FALSE]

\* The node as the span tree refers to it.
NodeOf(entry) == [id |-> entry.id, kind |-> entry.kind, blank |-> entry.blank]

\* The open nodes after the innermost one got a child of this kind.
WithKid(kind, brk) ==
    [path EXCEPT ![Len(path)].nkids = @ + 1,
                 ![Len(path)].lastKid = kind,
                 ![Len(path)].lastBreak = brk]

\* The walker may visit a child of one of these kinds next.
CanVisitUpTo(parents, most) ==
    /\ pc = "walking"
    /\ nodes < most
    /\ path # <<>>
    /\ Top(path).kind \in parents

CanVisit(parents) == CanVisitUpTo(parents, MaxNodes)

\* The walker leaves the innermost open node, of this kind.
CanLeave(kind) ==
    /\ pc = "walking"
    /\ path # <<>>
    /\ Top(path).kind = kind

\* The walk after a handler returned s: it goes on, or the fault ends it.
Descend(s, kind, entry) ==
    /\ Commit(s)
    /\ nodes' = nodes + 1
    /\ pc' = Outcome(s)
    /\ path' = Append(WithKid(kind, FALSE), entry)

Leaf(s, kind, brk) ==
    /\ Commit(s)
    /\ nodes' = nodes + 1
    /\ pc' = Outcome(s)
    /\ path' = WithKid(kind, brk)

Ascend(s) ==
    /\ Commit(s)
    /\ nodes' = nodes
    /\ pc' = Outcome(s)
    /\ path' = Pop(path)

\* The fields of a Renderer New has just built, each at its zero value, and
\* an empty sink and history.
NewRenderer ==
    /\ styles = <<>>
    /\ pushes = 0
    /\ styleTrail = [call |-> "none", before |-> DefaultAttrs, zero |-> FALSE,
                     calls |-> 0]
    /\ listStack = <<>>
    /\ openBlocks = <<>>
    /\ wrapping = <<>>
    /\ spanStack = <<>>
    /\ lastSpan = Nil
    /\ rootSpan = Nil
    /\ spans = <<>>
    /\ prefixStack = <<>>
    /\ prefix = <<>>
    /\ wordBuffer = <<>>
    /\ lineWidth = 0
    /\ atNewline = FALSE
    /\ byteOffset = 0
    /\ out = <<>>
    /\ fault = "none"
    /\ path = <<>>
    /\ nodes = 0
    /\ pc = "idle"
    /\ given = <<>>
    /\ prefixAt = <<>>
    /\ lineBegins = <<>>
    /\ rawLines = {}
    /\ tightLines = {}
    /\ renders = 0
    /\ tableStack = <<>>
    /\ inImage = FALSE

\* No kitty codec call and no MarkdownView beside the renderer.
NoCodec == [pc |-> "none"]

NoView == [pc |-> "none"]

\* No line has been ended by write.
NoLine == [content |-> -1, padded |-> -1]

\* No call on the exported methods has been noted.
NoCalls ==
    [n |-> 0, op |-> "none", arg |-> <<>>, ret |-> 0, before |-> <<>>,
     pushed |-> <<>>, line |-> NoLine]

\* Index has not been called.
NoIndex == [pc |-> "none"]

RendererOnly ==
    kitty = NoCodec /\ view = NoView /\ api = NoCalls /\ index = NoIndex

\* The state after New(options...) with any wrap width and soft-break option,
\* no theme and no images, and a sink that takes every write.
Init ==
    /\ wordWrap \in {0, WrapWidth}
    /\ softBreak \in BOOLEAN
    /\ theme = NoTheme
    /\ images = FALSE
    /\ sink = NeverFails
    /\ NewRenderer
    /\ RendererOnly

\* ------------------------------------------------------------ the handlers

\* The assignments that open Renderer.RenderDocument on enter and on exit.
ResetDocument(s) ==
    [s EXCEPT !.listStack = <<>>, !.prefixStack = <<>>, !.prefix = <<>>,
              !.wrapping = <<TRUE>>, !.atNewline = FALSE]

\* "r.styles = nil", as RenderDocument has it on enter and on exit.
ResetStyles(s) == IF s.stop \/ s.fault # "none" THEN s ELSE [s EXCEPT !.styles = <<>>]

\* Renderer.RenderDocument, enter
RenderDocumentEnter ==
    /\ pc = "idle"
    /\ LET entry == Entry("Document", FALSE, <<>>)
           s1 == OpenSpan(ResetDocument(Cur), NodeOf(entry))
           s2 == PushStyle(ResetStyles(s1), "Generic")
       IN  /\ Commit(s2)
           /\ nodes' = nodes + 1
           /\ pc' = IF Ok(s2) THEN "walking" ELSE "faulted"
           /\ path' = <<entry>>

\* Renderer.RenderDocument, exit
RenderDocumentExit ==
    /\ CanLeave("Document")
    /\ LET s1 == PopStyle(ResetDocument(Cur))
           s2 == CloseSpan(ResetStyles(s1))
       IN  /\ Commit(s2)
           /\ nodes' = nodes
           /\ pc' = IF Ok(s2) THEN "done" ELSE "faulted"
           /\ path' = <<>>

\* Renderer.RenderHeading, enter
RenderHeadingEnterOf(inputs, most) ==
    /\ CanVisitUpTo(BlockParents, most)
    /\ \E in \in inputs, blank \in BOOLEAN, ws \in LeadingWhitespace :
         LET entry == Entry("Heading", blank, in)
             parent == Top(path)
             s1 == OpenBlock(Cur, NodeOf(entry), parent, parent.nkids = 0, ws)
             s2 == PushWordWrap(s1, FALSE)
             s3 == PushStyle(s2, IF in.level > 2 THEN "GenericSubheading"
                                 ELSE "GenericHeading")
             s4 == WriteIf(s3, ~in.setext, Repeat("#", in.level))
             s5 == WriteIf(s4, ~in.setext, <<SP>>)
         IN  Descend(s5, "Heading", entry)

RenderHeadingEnter == RenderHeadingEnterOf(HeadingInputs, MaxNodes)

\* The underline RenderHeading writes when it leaves a setext heading.
SetextUnderline(s, in) ==
    IF in.setext
    THEN WriteString(WriteNewlineUnlessAtNewline(s),
                     IF in.level = 2 THEN <<"-", "-", "-">> ELSE <<"=", "=", "=">>)
    ELSE s

\* Renderer.RenderHeading, exit
RenderHeadingExit ==
    /\ CanLeave("Heading")
    /\ LET s1 == SetextUnderline(Cur, Top(path).attr)
           s2 == PopStyle(s1)
           s3 == WriteByte(s2, NL)
           s4 == PopWordWrap(s3)
       IN  Ascend(CloseBlock(s4))

\* Renderer.RenderBlockquote, enter
RenderBlockquoteEnter ==
    /\ CanVisit(BlockParents)
    /\ \E blank \in BOOLEAN, ws \in LeadingWhitespace :
         LET entry == Entry("Blockquote", blank, <<>>)
             parent == Top(path)
             s1 == OpenBlock(Cur, NodeOf(entry), parent, parent.nkids = 0, ws)
             s2 == PushStyle(s1, "GenericEmph")
             s3 == WriteString(s2, <<">", SP>>)
         IN  Descend(PushPrefix(s3, <<">", SP>>), "Blockquote", entry)

\* Renderer.RenderBlockquote, exit
RenderBlockquoteExit ==
    /\ CanLeave("Blockquote")
    /\ Ascend(CloseBlock(PopStyle(PopPrefix(Cur))))

\* The newline that ends the opening fence's line in RenderFencedCodeBlock:
\* "if err := r.WriteByte(w, '\n'); err != nil { return ast.WalkStop, nil }".
Stopped(s) ==
    IF s.fault = "write error" THEN [s EXCEPT !.fault = "none", !.stop = TRUE]
    ELSE s

InfoEnd(s) == IF s.stop \/ s.fault # "none" THEN s ELSE Stopped(WriteByte(s, NL))

\* Renderer.RenderFencedCodeBlock, enter and exit (the node has no children)
RenderFencedCodeBlock ==
    /\ CanVisit(BlockParents)
    /\ \E in \in FencedCodeBlockInputs, blank \in BOOLEAN, ws \in LeadingWhitespace :
         LET entry == Entry("FencedCodeBlock", blank, in)
             parent == Top(path)
             s1 == OpenBlock(Cur, NodeOf(entry), parent, parent.nkids = 0, ws)
             s2 == PushWordWrap(s1, FALSE)
             s3 == PushStyle(s2, "LiteralStringHeredoc")
             s4 == Write(s3, in.fence)
             s5 == Write(s4, in.language)
             s6 == InfoEnd(s5)
             s7 == writeCodeLines(s6, in.language, in.lines)
             s8 == beginLine(s7)
             s9 == Write(s8, in.fence)
             s10 == WriteByte(s9, NL)
             \* exit
             s11 == PopStyle(s10)
             s12 == PopWordWrap(s11)
         IN  Leaf(CloseBlock(s12), "FencedCodeBlock", FALSE)

\* The listState RenderList pushes.
PushList(s, in) ==
    IF s.stop \/ s.fault # "none" THEN s ELSE [s EXCEPT !.listStack = Append(@, in)]

\* Renderer.RenderList, enter, for the lists of inputs in a document of at
\* most so many nodes
RenderListEnterOf(inputs, most) ==
    /\ CanVisitUpTo(BlockParents, most)
    /\ \E in \in inputs, blank \in BOOLEAN, ws \in LeadingWhitespace :
         LET entry == Entry("List", blank, in)
             parent == Top(path)
             s1 == OpenBlock(Cur, NodeOf(entry), parent, parent.nkids = 0, ws)
         IN  Descend(PushList(s1, in), "List", entry)

RenderListEnter == RenderListEnterOf(ListInputs, MaxNodes)

\* Renderer.RenderList, exit
RenderListExit ==
    /\ CanLeave("List")
    /\ Top(path).nkids > 0
    /\ Ascend(CloseBlock(Shortened(Cur, listStack, [Cur EXCEPT !.listStack = Pop(@)])))

\* The index of an ordered list's item written and not advanced.
ItemIndexKept(s) ==
    IF s.stop \/ s.fault # "none" \/ ~Top(s.listStack).ordered THEN s
    ELSE WriteString(s, FormatInt(Top(s.listStack).index))

\* The index of an ordered list's item written and advanced; ret is left at
\* the count WriteString returned.
ItemIndex(s) ==
    IF s.stop \/ s.fault # "none" \/ ~Top(s.listStack).ordered THEN s
    ELSE [WriteString(s, FormatInt(Top(s.listStack).index))
             EXCEPT !.listStack[Len(s.listStack)].index = @ + 1]

\* The marker of a list item and the spaces up to the item's offset written,
\* and the indentation of the item's content pushed; s is the renderer after
\* ItemIndex.
ItemMarker(s, o, ws) ==
    IF s.stop \/ s.fault # "none" THEN s
    ELSE
      LET state == Top(s.listStack)
          markerWidth == IF state.ordered THEN 2 + s.ret ELSE 2
          offset == markerWidth + Len(ws)
          s1 == Write(s, <<state.marker, SP>>)
          s2 == WriteIf(s1, offset < o, Repeat(SP, o - offset))
      IN  PushIndent(s2, IF offset < o THEN o ELSE offset)

\* Renderer.RenderListItem, enter, in a document of at most so many nodes
RenderListItemEnterUpTo(most) ==
    /\ CanVisitUpTo({"List"}, most)
    /\ \E o \in ListItemOffsets, blank \in BOOLEAN, ws \in LeadingWhitespace :
         LET entry == Entry("ListItem", blank, <<>>)
             parent == Top(path)
             s1 == OpenBlock(Cur, NodeOf(entry), parent, parent.nkids = 0, ws)
         IN  Descend(ItemMarker(ItemIndex(s1), o, ws), "ListItem", entry)

RenderListItemEnter == RenderListItemEnterUpTo(MaxNodes)

\* Renderer.RenderListItem, exit
RenderListItemExit ==
    /\ CanLeave("ListItem")
    /\ Ascend(CloseBlock(PopPrefix(Cur)))

\* Renderer.RenderParagraph, enter
RenderParagraphEnterUpTo(most) ==
    /\ CanVisitUpTo(BlockParents, most)
    /\ \E blank \in BOOLEAN, ws \in LeadingWhitespace :
         LET entry == Entry("Paragraph", blank, <<>>)
             parent == Top(path)
             s1 == IF ~blank /\ parent.lastKid \in {"Paragraph", "Blockquote"}
                   THEN WriteByte(Cur, NL)
                   ELSE Cur
             s2 == OpenBlock(s1, NodeOf(entry), parent, parent.nkids = 0, ws)
         IN  Descend(PushWordWrap(s2, TRUE), "Paragraph", entry)

RenderParagraphEnter == RenderParagraphEnterUpTo(MaxNodes)

\* Renderer.RenderParagraph, exit
RenderParagraphExit ==
    /\ CanLeave("Paragraph")
    /\ Top(path).nkids > 0
    /\ Ascend(CloseBlock(PopWordWrap(Cur)))

\* Renderer.RenderEmphasis, enter
RenderEmphasisEnter ==
    /\ CanVisit(InlineParents)
    /\ \E in \in EmphasisInputs :
         LET entry == Entry("Emphasis", FALSE, in)
             s1 == OpenSpan(Cur, NodeOf(entry))
         IN  Descend(WriteString(s1, Repeat(in.marker, in.level)),
                     "Emphasis", entry)

\* Renderer.RenderEmphasis, exit
RenderEmphasisExit ==
    /\ CanLeave("Emphasis")
    /\ Top(path).nkids > 0
    /\ LET in == Top(path).attr
       IN  Ascend(WriteString(CloseSpan(Cur), Repeat(in.marker, in.level)))

\* Renderer.RenderCodeSpan, enter and exit (the children are skipped)
RenderCodeSpanOf(inputs) ==
    /\ CanVisit(InlineParents)
    /\ \E in \in inputs :
         LET entry == Entry("CodeSpan", FALSE, in)
             s1 == PushWordWrap(OpenSpan(Cur, NodeOf(entry)), FALSE)
             delimiter == Repeat(Backtick, in.backticks)
             pad == shouldPadCodeSpan(in.segments)
             s2 == Write(s1, delimiter)
             s3 == WriteIf(s2, pad, <<SP>>)
             s4 == writeCode(s3, <<>>, Concat(in.segments))
             s5 == WriteIf(s4, pad, <<SP>>)
             s6 == Write(s5, delimiter)
             \* exit
         IN  Leaf(CloseSpan(PopWordWrap(s6)), "CodeSpan", FALSE)

RenderCodeSpan == RenderCodeSpanOf(CodeSpanInputs)

\* The line break RenderText writes after a segment.
TextBreak(s, break) ==
    CASE break = "hard" -> WriteString(s, <<"\\", NL>>)
      [] break = "soft" -> WriteByte(s, IF s.softBreak THEN SP ELSE NL)
      [] OTHER -> s

\* Renderer.RenderText, enter and exit (the node has no children).  The parser
\* merges adjacent text segments, so a Text follows a Text only after a line
\* break.
RenderTextOf(inputs, most) ==
    /\ CanVisitUpTo(InlineParents, most)
    /\ Top(path).lastKid = "Text" => Top(path).lastBreak
    /\ \E in \in inputs :
         LET entry == Entry("Text", FALSE, in)
             s1 == Write(OpenSpan(Cur, NodeOf(entry)), in.value)
             \* exit
         IN  Leaf(CloseSpan(TextBreak(s1, in.break)), "Text", in.break # "none")

RenderText == RenderTextOf(TextInputs, MaxNodes)

Next ==
    \/ RenderDocumentEnter
    \/ RenderDocumentExit
    \/ RenderHeadingEnter
    \/ RenderHeadingExit
    \/ RenderBlockquoteEnter
    \/ RenderBlockquoteExit
    \/ RenderFencedCodeBlock
    \/ RenderListEnter
    \/ RenderListExit
    \/ RenderListItemEnter
    \/ RenderListItemExit
    \/ RenderParagraphEnter
    \/ RenderParagraphExit
    \/ RenderEmphasisEnter
    \/ RenderEmphasisExit
    \/ RenderCodeSpan
    \/ RenderText

Spec == Init /\ [][Next]_vars

\* ------------------------------------------------------------- the links

\* A Link node: ReferenceType, Label, Destination and Title.
LinkInputs ==
    { [refType |-> "none", label |-> <<>>, dest |-> <<"u">>, title |-> <<>>],
      [refType |-> "none", label |-> <<>>, dest |-> <<"u", "(">>, title |-> <<"t">>],
      [refType |-> "full", label |-> <<"l">>, dest |-> <<"u">>, title |-> <<>>],
      [refType |-> "collapsed", label |-> <<"l">>, dest |-> <<"u">>, title |-> <<>>],
      [refType |-> "shortcut", label |-> <<"l">>, dest |-> <<"u">>, title |-> <<>>] }

\* An AutoLink node: its label.
AutoLinkInputs == { [label |-> <<"u">>] }

\* The hyperlinks option, which New leaves off.
hyperlinks == FALSE

\* Renderer.escapeLinkDest: the escaped bytes of a destination that needs it.
RECURSIVE escaped(_)
escaped(dest) ==
    IF dest = <<>> THEN <<>>
    ELSE (IF Head(dest) \in {"<", ">"} THEN <<"\\", Head(dest)>> ELSE <<Head(dest)>>)
         \o escaped(Tail(dest))

\* Renderer.escapeLinkDest
escapeLinkDest(dest) ==
    IF \E i \in DOMAIN dest : dest[i] \in {SP, NL, "(", ")"}
    THEN <<"<">> \o escaped(dest) \o <<">">>
    ELSE dest

\* Renderer.linkTitleDelimiter
linkTitleDelimiter(title) ==
    IF \E i \in DOMAIN title :
           title[i] = "\"" /\ (i = 1 \/ title[i - 1] # "\\")
    THEN "'"
    ELSE "\""

\* fmt.Fprintf(w, ...): the bytes go to the sink and not through Renderer.Write.
Fprintf(s, bytes) ==
    IF s.stop \/ s.fault # "none" THEN s
    ELSE IF Accepted(s, 1) = 0
    THEN [s EXCEPT !.sink = Handed(s, 1), !.fault = "write error"]
    ELSE MarkRaw(s, [s EXCEPT !.sink = Handed(s, 1), !.out = @ \o bytes])

\* The title of a link, between its delimiters.
LinkTitle(s, title) ==
    IF Len(title) # 0
    THEN Fprintf(s, <<SP, linkTitleDelimiter(title)>> \o title
                    \o <<linkTitleDelimiter(title)>>)
    ELSE s

\* Renderer.renderHyperlink
renderHyperlink(s, enter) ==
    IF enter THEN PushStyle(s, "GenericUnderline") ELSE PopStyle(s)

\* Renderer.renderLinkOrImage on exit, after CloseSpan, with hyperlinks off.
LinkClose(s, in) ==
    CASE in.refType = "full" ->
             WriteByte(Write(WriteString(s, <<"]", "[">>), in.label), "]")
      [] in.refType = "collapsed" -> WriteString(s, <<"]", "[", "]">>)
      [] in.refType = "shortcut" -> WriteByte(s, "]")
      [] OTHER ->
             WriteByte(LinkTitle(Write(WriteString(s, <<"]", "(">>),
                                       escapeLinkDest(in.dest)),
                                 in.title),
                       ")")

\* Renderer.renderLinkOrImage after OpenSpan or CloseSpan.
LinkText(s, open, in, enter) ==
    IF hyperlinks THEN renderHyperlink(s, enter)
    ELSE IF enter THEN WriteString(s, open)
    ELSE LinkClose(s, in)

\* Renderer.renderLinkOrImage
renderLinkOrImage(s, node, open, in, enter) ==
    LinkText(IF enter THEN OpenSpan(s, node) ELSE CloseSpan(s), open, in, enter)

\* Renderer.RenderLink, enter, for the links of inputs.  A link holds no link.
RenderLinkEnterOf(inputs) ==
    /\ CanVisit(InlineParents)
    /\ \A i \in DOMAIN path : path[i].kind # "Link"
    /\ \E in \in inputs :
         LET entry == Entry("Link", FALSE, in)
         IN  Descend(renderLinkOrImage(Cur, NodeOf(entry), <<"[">>, in, TRUE),
                     "Link", entry)

RenderLinkEnter == RenderLinkEnterOf(LinkInputs)

\* Renderer.RenderLink, exit
RenderLinkExit ==
    /\ CanLeave("Link")
    /\ Top(path).nkids > 0
    /\ Ascend(renderLinkOrImage(Cur, Nil, <<"[">>, Top(path).attr, FALSE))

\* Renderer.RenderAutoLink, enter and exit (the node has no children)
RenderAutoLink ==
    /\ CanVisit(InlineParents)
    /\ \E in \in AutoLinkInputs :
         Leaf(WriteByte(Write(WriteByte(Cur, "<"), in.label), ">"),
              "AutoLink", FALSE)

\* The renders of a paragraph of text, emphasis, links and autolinks.
LinkNext ==
    \/ RenderDocumentEnter
    \/ RenderDocumentExit
    \/ RenderParagraphEnter
    \/ RenderParagraphExit
    \/ RenderEmphasisEnter
    \/ RenderEmphasisExit
    \/ RenderLinkEnter
    \/ RenderLinkExit
    \/ RenderAutoLink
    \/ RenderText

LinkSpec == Init /\ [][LinkNext]_vars

\* ------------------------------------------------------------- the tables

\* A Table node: its rows, the header first, each row the text of its cells.
\* A cell with no text has no children.
TableInputs ==
    { << << <<"a">>, <<"b", "b">> >>, << <<"c", "c", "c">>, <<"d">> >> >>,
      << << <<EAcute>> >>, << <<"b">> >> >>,
      << << <<"a">>, <<>> >>, << <<"b", "b">>, <<"c">> >>,
         << <<"d">>, <<"e">> >> >> }

\* A tableState with its indices at zero.
TableState(columnWidths, cellWidths, measuring) ==
    [columnWidths |-> columnWidths, cellWidths |-> cellWidths,
     columnIndex |-> 0, rowIndex |-> 0, cellIndex |-> 0,
     measuring |-> measuring]

\* Renderer.WriteRune
WriteRune(s, c) == Write(s, <<c>>)

\* The Renderer that RenderTable builds to measure a cell, "cr", with the
\* countingWriter "dest" as its sink: the caller's theme and soft-break
\* option, no word wrap, every other field at its zero value.
CellRenderer(s) ==
    [s EXCEPT !.wordWrap = 0, !.listStack = <<>>, !.openBlocks = <<>>,
              !.wrapping = <<>>, !.spanStack = <<>>, !.lastSpan = Nil,
              !.rootSpan = Nil, !.spans = <<>>, !.prefixStack = <<>>,
              !.prefix = <<>>, !.wordBuffer = <<>>, !.lineWidth = 0,
              !.atNewline = FALSE, !.byteOffset = 0, !.styles = <<>>,
              !.tableStack = <<TableState(<<>>, <<>>, TRUE)>>,
              !.out = <<>>, !.given = <<>>, !.prefixAt = <<>>,
              !.lineBegins = <<>>, !.rawLines = {}, !.tightLines = {},
              !.pushes = 0, !.inImage = FALSE, !.sink = NeverFails]

\* The token type of a cell's style.
CellToken(state) ==
    CASE state.rowIndex = 0 -> "TableHeader"
      [] state.rowIndex % 2 = 0 -> "TableRowAlt"
      [] OTHER -> "TableRow"

\* Renderer.RenderTableCell on enter, not measuring.
TableCellEnter(s, state) ==
    WriteIf(PushStyle(WriteIf(s, state.rowIndex = 0 /\ state.columnIndex > 0,
                              <<borders.vertical>>),
                      CellToken(state)),
            state.rowIndex # 0 /\ state.columnIndex > 0,
            <<borders.vertical>>)

\* The end of RenderTableCell on exit: the next cell of the row is current.
CellDone(s) ==
    IF s.stop \/ s.fault # "none" THEN s
    ELSE [s EXCEPT !.tableStack[Len(s.tableStack)].columnIndex = @ + 1,
                   !.tableStack[Len(s.tableStack)].cellIndex = @ + 1]

\* Renderer.RenderTableCell on exit, not measuring.  An index past the end
\* of a slice and a negative count for strings.Repeat are runtime panics.
TableCellExit(s, state) ==
    IF \/ state.columnIndex >= Len(state.columnWidths)
       \/ state.cellIndex >= Len(state.cellWidths)
    THEN [s EXCEPT !.fault = "index out of range"]
    ELSE IF state.columnWidths[state.columnIndex + 1]
              < state.cellWidths[state.cellIndex + 1]
    THEN [s EXCEPT !.fault = "negative Repeat count"]
    ELSE CellDone(PopStyle(WriteString(s,
             Repeat(SP, state.columnWidths[state.columnIndex + 1]
                          - state.cellWidths[state.cellIndex + 1]))))

\* Renderer.RenderTableCell
TableCell(s, enter) ==
    IF s.stop \/ s.fault # "none" \/ Top(s.tableStack).measuring THEN s
    ELSE IF enter THEN TableCellEnter(s, Top(s.tableStack))
    ELSE TableCellExit(s, Top(s.tableStack))

\* Renderer.RenderText for the text of a cell, which no line break follows.
CellText(s, node, value) ==
    CloseSpan(TextBreak(Write(OpenSpan(s, node), value), "none"))

\* The handlers of a cell's children.
CellChildren(s, cell) ==
    IF cell = <<>> THEN s
    ELSE CellText(s, [id |-> 0, kind |-> "Text", blank |-> FALSE], cell)

\* The walk that Render makes of a cell: RenderTableCell on enter, the
\* cell's children, RenderTableCell on exit.
CellWalk(s, cell) == TableCell(CellChildren(TableCell(s, TRUE), cell), FALSE)

\* The caller and the count of the countingWriter once the cell is rendered.
Counted(s, done) ==
    [outer |-> IF Ok(done) THEN s ELSE [s EXCEPT !.fault = done.fault],
     n |-> NBytes(done.out)]

\* The cell rendered by the caller itself into the caller's sink.
MeasuredInPlace(s, cell) ==
    LET done == CellWalk([s EXCEPT !.tableStack =
                             Append(@, TableState(<<>>, <<>>, TRUE))], cell)
    IN  [outer |-> [done EXCEPT !.tableStack = s.tableStack], n |-> Len(cell)]

\* "cellRenderer.Render(dest, source, cell)" with cr and dest newly made:
\* the caller r as it is afterwards and dest.n.
Measured(s, cell) == Counted(s, CellWalk(CellRenderer(s), cell))

\* "for col >= len(columnWidths) { columnWidths = append(columnWidths, 0) }",
\* col counted from 1.
RECURSIVE Grown(_, _)
Grown(columnWidths, col) ==
    IF col > Len(columnWidths) THEN Grown(Append(columnWidths, 0), col)
    ELSE columnWidths

\* "if columnWidths[col] < dest.n { columnWidths[col] = dest.n }"
Widened(columnWidths, col, n) ==
    [columnWidths EXCEPT ![col] = IF @ < n THEN n ELSE @]

\* The body of RenderTable's inner loop after the cell is rendered.
Noted(acc, col, m) ==
    [r |-> m.outer,
     columnWidths |-> Widened(Grown(acc.columnWidths, col), col, m.n),
     cellWidths |-> Append(acc.cellWidths, m.n)]

\* RenderTable's inner loop, over the cells of a row.
RECURSIVE MeasureRow(_, _, _)
MeasureRow(acc, row, col) ==
    IF acc.r.stop \/ acc.r.fault # "none" \/ col > Len(row) THEN acc
    ELSE MeasureRow(Noted(acc, col, Measured(acc.r, row[col])), row, col + 1)

\* RenderTable's outer loop, over the rows of the table.
RECURSIVE MeasureRows(_, _)
MeasureRows(acc, rows) ==
    IF rows = <<>> THEN acc
    ELSE MeasureRows(MeasureRow(acc, Head(rows), 1), Tail(rows))

\* The end of RenderTable on enter: the table's state is pushed.
TableMeasured(acc) ==
    IF acc.r.stop \/ acc.r.fault # "none" THEN acc.r
    ELSE [acc.r EXCEPT !.tableStack =
             Append(@, TableState(acc.columnWidths, acc.cellWidths, FALSE))]

\* The fields of the Renderer and its sink.
Outer(s) ==
    [out |-> s.out, fault |-> s.fault, byteOffset |-> s.byteOffset,
     lineWidth |-> s.lineWidth, atNewline |-> s.atNewline,
     wordBuffer |-> s.wordBuffer, wrapping |-> s.wrapping,
     listStack |-> s.listStack, openBlocks |-> s.openBlocks,
     spanStack |-> s.spanStack, lastSpan |-> s.lastSpan,
     rootSpan |-> s.rootSpan, spans |-> s.spans,
     prefixStack |-> s.prefixStack, prefix |-> s.prefix, styles |-> s.styles,
     tableStack |-> s.tableStack]

\* The open node of a table: its rows and the renderer as OpenBlock left it.
TableEntry(table, s) ==
    Entry("Table", FALSE, [rows |-> table, before |-> Outer(s)])

\* RenderTable on enter, after OpenBlock.
MeasureTable(s, table) ==
    TableMeasured(MeasureRows([r |-> s, columnWidths |-> <<>>,
                               cellWidths |-> <<>>], table))

\* The table opened by OpenBlock, measured and entered.
TableOpened(s, table) ==
    Descend(MeasureTable(s, table), "Table", TableEntry(table, s))

\* Renderer.RenderTable, enter
RenderTableEnter ==
    /\ CanVisit({"Document"})
    /\ \E table \in TableInputs :
         TableOpened(OpenBlock(Cur, NodeOf(Entry("Table", FALSE, <<>>)),
                               Top(path), Top(path).nkids = 0, <<>>),
                     table)

\* The loop of renderTableBorder, over the columns from column i on.
RECURSIVE BorderColumns(_, _, _, _)
BorderColumns(s, widths, i, join) ==
    IF i > Len(widths) THEN s
    ELSE BorderColumns(WriteString(WriteIf(s, i > 1, <<join>>),
                                   Repeat(borders.horizontal, widths[i])),
                       widths, i + 1, join)

\* Renderer.renderTableBorder
renderTableBorder(s, left, join, right) ==
    IF s.stop \/ s.fault # "none" THEN s
    ELSE WriteByte(WriteRune(BorderColumns(WriteRune(s, left),
                                           Top(s.tableStack).columnWidths,
                                           1, join),
                             right),
                   NL)

\* The end of a row that leaves the column index where it is.
RowDoneKeepsColumn(s) ==
    IF s.stop \/ s.fault # "none" THEN s
    ELSE [s EXCEPT !.tableStack[Len(s.tableStack)].rowIndex = @ + 1]

\* "state.columnIndex = 0; state.rowIndex++", as RenderTableHeader and
\* RenderTableRow have it on exit.
RowDone(s) ==
    IF s.stop \/ s.fault # "none" THEN s
    ELSE [s EXCEPT !.tableStack[Len(s.tableStack)].columnIndex = 0,
                   !.tableStack[Len(s.tableStack)].rowIndex = @ + 1]

\* "r.tableStack = r.tableStack[:len(r.tableStack)-1]"
PopTable(s) ==
    IF s.stop \/ s.fault # "none" THEN s
    ELSE Shortened(s, s.tableStack, [s EXCEPT !.tableStack = Pop(@)])

\* The walker is at an open node of this kind.
At(kinds) ==
    /\ pc = "walking"
    /\ path # <<>>
    /\ Top(path).kind \in kinds

\* Renderer.RenderTable, exit
RenderTableExit ==
    /\ At({"Table"})
    /\ Top(path).nkids = Len(Top(path).attr.rows)
    /\ Ascend(CloseBlock(PopTable(renderTableBorder(Cur, borders.bottomLeft,
                  borders.bottomJoin, borders.bottomRight))))

\* Renderer.RenderTableHeader, enter
RenderTableHeaderEnter ==
    /\ At({"Table"})
    /\ Top(path).nkids = 0
    /\ Descend(WriteRune(renderTableBorder(Cur, borders.topLeft,
                             borders.topJoin, borders.topRight),
                         borders.vertical),
               "TableHeader",
               Entry("TableHeader", FALSE, Top(path).attr.rows[1]))

\* Renderer.RenderTableHeader, exit
RenderTableHeaderExit ==
    /\ At({"TableHeader"})
    /\ Top(path).nkids = Len(Top(path).attr)
    /\ Ascend(RowDone(renderTableBorder(
                  WriteByte(WriteRune(Cur, borders.vertical), NL),
                  borders.middleLeft, borders.middleJoin, borders.middleRight)))

\* Renderer.RenderTableRow, enter
RenderTableRowEnter ==
    /\ At({"Table"})
    /\ Top(path).nkids > 0
    /\ Top(path).nkids < Len(Top(path).attr.rows)
    /\ Descend(WriteRune(Cur, borders.vertical), "TableRow",
               Entry("TableRow", FALSE,
                     Top(path).attr.rows[Top(path).nkids + 1]))

\* Renderer.RenderTableRow, exit
RenderTableRowExit ==
    /\ At({"TableRow"})
    /\ Top(path).nkids = Len(Top(path).attr)
    /\ Ascend(RowDone(WriteRune(WriteRune(Cur, borders.vertical), NL)))

\* Renderer.RenderTableCell, enter
RenderTableCellEnter ==
    /\ At({"TableHeader", "TableRow"})
    /\ Top(path).nkids < Len(Top(path).attr)
    /\ Descend(TableCell(Cur, TRUE), "TableCell",
               Entry("TableCell", FALSE, Top(path).attr[Top(path).nkids + 1]))

\* Renderer.RenderText for the text of a cell
RenderCellText ==
    /\ At({"TableCell"})
    /\ Top(path).nkids = 0
    /\ Top(path).attr # <<>>
    /\ Leaf(CellText(Cur, NodeOf(Entry("Text", FALSE, <<>>)), Top(path).attr),
            "Text", FALSE)

\* Renderer.RenderTableCell, exit
RenderTableCellExit ==
    /\ At({"TableCell"})
    /\ Top(path).attr = <<>> \/ Top(path).nkids = 1
    /\ Ascend(TableCell(Cur, FALSE))

\* A renderer of any of three wrap widths, with no theme or the full one.
TableInit ==
    /\ wordWrap \in {0, WrapWidth, TableWrapWidth}
    /\ softBreak = FALSE
    /\ theme \in {NoTheme, "full"}
    /\ images = FALSE
    /\ sink = NeverFails
    /\ NewRenderer
    /\ RendererOnly

\* The renders of documents that hold paragraphs and a table.
TableNext ==
    \/ RenderDocumentEnter
    \/ RenderDocumentExit
    \/ RenderParagraphEnter
    \/ RenderParagraphExit
    \/ RenderText
    \/ RenderTableEnter
    \/ RenderTableExit
    \/ RenderTableHeaderEnter
    \/ RenderTableHeaderExit
    \/ RenderTableRowEnter
    \/ RenderTableRowExit
    \/ RenderTableCellEnter
    \/ RenderCellText
    \/ RenderTableCellExit

TableSpec == TableInit /\ [][TableNext]_vars

\* ------------------------------------------------- the renderer used again

\* goldmark's Render is called once more with the Renderer of a render that
\* has returned: a new sink and a new walk, the Renderer's fields as the last
\* render left them.
RenderAgain ==
    /\ pc = "done"
    /\ renders + 1 < MaxRenders
    /\ renders' = renders + 1
    /\ pc' = "idle"
    /\ path' = <<>>
    /\ nodes' = 0
    /\ out' = <<>>
    /\ given' = <<>>
    /\ prefixAt' = <<>>
    /\ lineBegins' = <<>>
    /\ rawLines' = {}
    /\ tightLines' = {}
    /\ UNCHANGED <<wordWrap, softBreak, theme, listStack, openBlocks, wrapping,
                   spanStack, lastSpan, rootSpan, spans, prefixStack, prefix,
                   wordBuffer, lineWidth, atNewline, byteOffset, fault, styles,
                   pushes, styleTrail, tableStack, images, inImage, sink,
                   kitty, view, api, index>>

\* The renders of documents of paragraphs of text, one after the other.
ReuseNext ==
    \/ RenderDocumentEnter
    \/ RenderDocumentExit
    \/ RenderParagraphEnter
    \/ RenderParagraphExit
    \/ RenderText
    \/ RenderAgain

ReuseSpec == Init /\ [][ReuseNext]_vars

\* -------------------------------------------------------------- link titles

\* Inline links with titles: plain, with a double quote, with a single quote,
\* with an escaped double quote, and with a quote of either kind.
TitledLinkInputs ==
    { [refType |-> "none", label |-> <<>>, dest |-> <<"u">>, title |-> ti] :
        ti \in { <<"t">>, <<"\"">>, <<"'">>, <<"\\", "\"">>,
                 <<"\"", "'">> } }

\* The renders of paragraphs of text and titled links.
TitleNext ==
    \/ RenderDocumentEnter
    \/ RenderDocumentExit
    \/ RenderParagraphEnter
    \/ RenderParagraphExit
    \/ RenderLinkEnterOf(TitledLinkInputs)
    \/ RenderLinkExit
    \/ RenderText

TitleSpec == Init /\ [][TitleNext]_vars

\* --------------------------------------------------------------- code spans

\* CodeSpan nodes of one segment and of two, which a code span that runs
\* over two lines has: the backticks of the delimiter and the segments.
SegmentedCodeSpanInputs ==
    { [backticks |-> 1, segments |-> << <<"x">> >>],
      [backticks |-> 2, segments |-> << <<"a", Backtick>> >>],
      [backticks |-> 1, segments |-> << <<SP>> >>],
      [backticks |-> 1, segments |-> << <<SP>>, <<"b">> >>],
      [backticks |-> 2, segments |-> << <<"a", NL>>, <<"b", Backtick>> >>],
      [backticks |-> 1, segments |-> << <<"a", SP>>, <<"b">> >>] }

\* The renders of paragraphs of text and code spans.
CodeSpanNext ==
    \/ RenderDocumentEnter
    \/ RenderDocumentExit
    \/ RenderParagraphEnter
    \/ RenderParagraphExit
    \/ RenderCodeSpanOf(SegmentedCodeSpanInputs)
    \/ RenderText

CodeSpanSpec == Init /\ [][CodeSpanNext]_vars

\* ------------------------------------------------------------ nested lists

\* Ordered lists with their markers and start numbers, and a bullet list.
NestedListInputs ==
    { [marker |-> ".", ordered |-> TRUE, index |-> 1],
      [marker |-> ")", ordered |-> TRUE, index |-> 9],
      [marker |-> "-", ordered |-> FALSE, index |-> 0] }

\* The renders of documents of lists in the items of lists.
ListNext ==
    \/ RenderDocumentEnter
    \/ RenderDocumentExit
    \/ RenderListEnterOf(NestedListInputs, MaxListNodes)
    \/ RenderListExit
    \/ RenderListItemEnterUpTo(MaxListNodes)
    \/ RenderListItemExit

ListSpec == Init /\ [][ListNext]_vars

\* ------------------------------------------------ images and failing sinks

\* The escape byte that opens and closes a kitty graphics command.
ESC == "ESC"

\* The payload bytes of one kitty graphics frame.
FrameSize == 4096

\* Image nodes: the link fields, whether openImage and image.Decode succeed
\* on the destination, and the base64 text of the PNG of the thumbnail.
ImageInputs ==
    { [refType |-> "none", label |-> <<>>, dest |-> <<"u">>, title |-> <<>>,
       opens |-> FALSE, data |-> <<>>],
      [refType |-> "none", label |-> <<>>, dest |-> <<"p">>, title |-> <<>>,
       opens |-> TRUE, data |-> <<"Q", "U", "J", "D">>] }

\* What the loop of renderImage hands to the sink for data, one element per
\* call: the frame's opening with the format and action keys on the first
\* frame only, the more key, the payload of at most FrameSize bytes, the
\* frame's end.
RECURSIVE ImageFrames(_, _)
ImageFrames(data, first) ==
    IF Len(data) = 0 THEN <<>>
    ELSE LET more == Len(data) > FrameSize
             b == IF more THEN SubSeq(data, 1, FrameSize) ELSE data
         IN  << IF first
                THEN <<ESC, "_", "G", "f", "=", "1", "0", "0", ",",
                       "a", "=", "T", ",">>
                ELSE <<ESC, "_", "G">>,
                <<"m", "=", IF more THEN "1" ELSE "0", ";">>,
                b,
                <<ESC, "\\">> >>
             \o ImageFrames(SubSeq(data, Len(b) + 1, Len(data)), FALSE)

\* The calls of fmt.Fprint, fmt.Fprintf and w.Write of renderImage in turn;
\* the first error ends them.
RECURSIVE FprintAll(_, _)
FprintAll(s, writes) ==
    IF s.stop \/ s.fault # "none" \/ writes = <<>> THEN s
    ELSE FprintAll(Fprintf(s, Head(writes)), Tail(writes))

\* Renderer.renderImage: the error of openImage or image.Decode, or the
\* image between two newlines.
renderImage(s, in) ==
    IF ~in.opens THEN [s EXCEPT !.fault = "no image"]
    ELSE FprintAll(s, <<<<NL>>>> \o ImageFrames(in.data, TRUE) \o <<<<NL>>>>)

\* Renderer.RenderImage on enter with images on, once renderImage returned:
\* "err == nil" sets inImage, any error leads to the text of the image.
ImageShown(s, node, in) ==
    IF Ok(s) THEN [s EXCEPT !.inImage = TRUE]
    ELSE renderLinkOrImage([s EXCEPT !.fault = "none"], node, <<"!", "[">>,
                           in, TRUE)

\* Renderer.RenderImage on enter
ImageEnter(s, node, in) ==
    IF s.images THEN ImageShown(renderImage(s, in), node, in)
    ELSE renderLinkOrImage(s, node, <<"!", "[">>, in, TRUE)

\* RenderImage's exit with the test of inImage left out.
ImageExitAlwaysText(s, in) ==
    renderLinkOrImage(s, Nil, <<"!", "[">>, in, FALSE)

\* Renderer.RenderImage on exit
ImageExit(s, in) ==
    IF s.images /\ s.inImage THEN [s EXCEPT !.inImage = FALSE]
    ELSE renderLinkOrImage(s, Nil, <<"!", "[">>, in, FALSE)

\* The walk after RenderImage returned s on enter: WalkSkipChildren when the
\* image was shown.
ImageEntered(s, entry) ==
    Descend(s, "Image",
            [entry EXCEPT !.kind = IF s.inImage THEN "ShownImage" ELSE "Image"])

\* Renderer.RenderImage, enter.  The walker visits the children of the node
\* unless the handler returned WalkSkipChildren, which the kind of the open
\* node records.
RenderImageEnter ==
    /\ CanVisit(InlineParents)
    /\ \E in \in ImageInputs :
         LET entry == Entry("Image", FALSE, in)
         IN  ImageEntered(ImageEnter(Cur, NodeOf(entry), in), entry)

\* Renderer.RenderImage, exit
RenderImageExit ==
    /\ pc = "walking"
    /\ path # <<>>
    /\ Top(path).kind \in {"Image", "ShownImage"}
    /\ Ascend(ImageExit(Cur, Top(path).attr))

\* A renderer built with WithImages and a wrap width, writing to a sink that
\* may return errors.
SinkInit ==
    /\ wordWrap = WrapWidth
    /\ softBreak = FALSE
    /\ theme = NoTheme
    /\ images = TRUE
    /\ sink \in {NeverFails} \cup {FailsAfter(n) : n \in 0..MaxSinkWrites}
    /\ NewRenderer
    /\ RendererOnly

\* The renders of paragraphs of text and images and of fenced code blocks.
SinkNext ==
    \/ RenderDocumentEnter
    \/ RenderDocumentExit
    \/ RenderParagraphEnter
    \/ RenderParagraphExit
    \/ RenderFencedCodeBlock
    \/ RenderImageEnter
    \/ RenderImageExit
    \/ RenderText

SinkSpec == SinkInit /\ [][SinkNext]_vars

\* ------------------------------------------------- the style stack on its own

\* The token types handed to PushStyle: three the sparse theme has an entry
\* for and one that resolves to the zero style in it.
StyleInputs ==
    {"GenericHeading", "GenericSubheading", "GenericEmph", "LiteralStringHeredoc"}

\* A renderer built with WithTheme and no word wrap.
StyleInit ==
    /\ wordWrap = 0
    /\ softBreak = FALSE
    /\ theme \in Themes
    /\ images = FALSE
    /\ sink = NeverFails
    /\ NewRenderer
    /\ RendererOnly

\* A handler's PushStyle call during a render.
CallPushStyle ==
    /\ pc = "walking"
    /\ styleTrail.calls <= MaxStyleCalls
    /\ pushes <= MaxStyleDepth
    /\ \E token \in StyleInputs :
         LET s == PushStyle(Cur, token)
         IN  /\ Commit(s)
             /\ pc' = IF Ok(s) THEN "walking" ELSE "faulted"
             /\ UNCHANGED <<nodes, path>>

\* The PopStyle call that matches a handler's last unmatched PushStyle call.
CallPopStyle ==
    /\ pc = "walking"
    /\ pushes > 1
    /\ LET s == PopStyle(Cur)
       IN  /\ Commit(s)
           /\ pc' = IF Ok(s) THEN "walking" ELSE "faulted"
           /\ UNCHANGED <<nodes, path>>

\* The document ends once every handler has popped what it pushed.
StyleDocumentExit ==
    /\ pushes = 1
    /\ RenderDocumentExit

StyleNext ==
    \/ RenderDocumentEnter
    \/ CallPushStyle
    \/ CallPopStyle
    \/ StyleDocumentExit

StyleSpec == StyleInit /\ [][StyleNext]_vars

\* ------------------------------------------------ the kitty graphics codec

\* The variables of the renderer and its walk, which the codec and the view
\* leave alone.
rendering ==
    <<wordWrap, softBreak, listStack, openBlocks, wrapping, spanStack,
      lastSpan, rootSpan, spans, prefixStack, prefix, wordBuffer, lineWidth,
      atNewline, byteOffset, out, fault, path, nodes, pc, given, prefixAt,
      lineBegins, rawLines, tightLines, theme, styles, pushes, styleTrail,
      renders, tableStack, images, inImage, sink, api>>

\* The alphabet of base64.StdEncoding.
Base64Alphabet ==
    <<"A", "B", "C", "D", "E", "F", "G", "H", "I", "J", "K", "L", "M", "N",
      "O", "P", "Q", "R", "S", "T", "U", "V", "W", "X", "Y", "Z",
      "a", "b", "c", "d", "e", "f", "g", "h", "i", "j", "k", "l", "m", "n",
      "o", "p", "q", "r", "s", "t", "u", "v", "w", "x", "y", "z",
      "0", "1", "2", "3", "4", "5", "6", "7", "8", "9", "+", "/">>

\* base64.StdEncoding applied to the first n bytes of src, with padding.
Base64Of(src, n) ==
    [j \in 1..(4 * ((n + 2) \div 3)) |->
        LET g == 3 * ((j - 1) \div 4)
            r == (j - 1) % 4
            b0 == src[g + 1]
            b1 == IF g + 2 <= n THEN src[g + 2] ELSE 0
            b2 == IF g + 3 <= n THEN src[g + 3] ELSE 0
        IN  CASE r = 0 -> Base64Alphabet[(b0 \div 4) + 1]
              [] r = 1 -> Base64Alphabet[(b0 % 4) * 16 + (b1 \div 16) + 1]
              [] r = 2 -> IF g + 2 > n THEN "="
                          ELSE Base64Alphabet[(b1 % 16) * 4 + (b2 \div 64) + 1]
              [] r = 3 -> IF g + 3 > n THEN "="
                          ELSE Base64Alphabet[(b2 % 64) + 1]]

\* base64.StdEncoding applied to all of src.
Base64Encode(src) == Base64Of(src, Len(src))

\* What a base64.NewEncoder has written to its destination once src was
\* written to it and before Close is called: the complete groups of three
\* bytes; the one or two bytes left over wait in the encoder for Close.
Base64Streamed(src) == Base64Of(src, Len(src) - (Len(src) % 3))

\* The six bits a base64 character stands for.
Sextet(c) == (CHOOSE i \in 1..64 : Base64Alphabet[i] = c) - 1

\* The "=" bytes at the end of text, at most two.
PaddingOf(text) ==
    IF Len(text) >= 2 /\ text[Len(text)] = "=" /\ text[Len(text) - 1] = "="
    THEN 2
    ELSE IF Len(text) >= 1 /\ text[Len(text)] = "=" THEN 1 ELSE 0

\* base64.StdEncoding.Decode: err is set for a byte outside the alphabet and
\* for a last group that is not four bytes long; bytes is what was decoded.
Base64Decode(text) ==
    LET pads == PaddingOf(text)
        body == Len(text) - pads
        n == 3 * (Len(text) \div 4) - pads
    IN  IF \/ Len(text) % 4 # 0
           \/ \E i \in 1..body : \A a \in 1..64 : Base64Alphabet[a] # text[i]
        THEN [err |-> TRUE, bytes |-> <<>>]
        ELSE [err |-> FALSE,
              bytes |->
                [j \in 1..n |->
                    LET g == 4 * ((j - 1) \div 3)
                        r == (j - 1) % 3
                        s0 == Sextet(text[g + 1])
                        s1 == Sextet(text[g + 2])
                        s2 == IF g + 3 <= body THEN Sextet(text[g + 3]) ELSE 0
                        s3 == IF g + 4 <= body THEN Sextet(text[g + 4]) ELSE 0
                    IN  CASE r = 0 -> s0 * 4 + (s1 \div 16)
                          [] r = 1 -> (s1 % 16) * 16 + (s2 \div 4)
                          [] r = 2 -> (s2 % 4) * 64 + s3]]

\* base64.StdEncoding.DecodedLen
DecodedLen(n) == 3 * (n \div 4)

\* The lengths in bytes of the PNG files png.Encode makes of the images.
MaxImageBytes == 6147

ImageSizes == {3, 4, 3075, 3076, MaxImageBytes}

\* The PNG file of n bytes.
PNG(n) == [i \in 1..n |-> (i * 7) % 256]

\* A uint of 64 bits as four digits to the base 65536, the lowest first.
ZeroUint == <<0, 0, 0, 0>>

\* "val*10 + uint(c-'0')" in 64 bits.
TimesTenPlus(val, d) ==
    LET l1 == val[1] * 10 + d
        l2 == val[2] * 10 + (l1 \div 65536)
        l3 == val[3] * 10 + (l2 \div 65536)
        l4 == val[4] * 10 + (l3 \div 65536)
    IN  <<l1 % 65536, l2 % 65536, l3 % 65536, l4 % 65536>>

DigitBytes == <<"0", "1", "2", "3", "4", "5", "6", "7", "8", "9">>

IsDigit(c) == \E i \in 1..10 : DigitBytes[i] = c

DigitOf(c) == (CHOOSE i \in 1..10 : DigitBytes[i] = c) - 1

\* Command{}
ZeroCommand ==
    [Action |-> "NUL", Quiet |-> "NUL", Format |-> ZeroUint, Medium |-> "NUL",
     Width |-> ZeroUint, Height |-> ZeroUint, Size |-> ZeroUint,
     Offset |-> ZeroUint, ID |-> ZeroUint, Number |-> ZeroUint,
     Placement |-> ZeroUint, Compression |-> "NUL", More |-> FALSE,
     Payload |-> <<>>]

\* The switch of DecodeCommand: the field a key's decoder writes to, and
\* "nil" for a key that no case names.
KeyField(k) ==
    CASE k = "a" -> "Action"
      [] k = "q" -> "Quiet"
      [] k = "f" -> "Format"
      [] k = "t" -> "Quiet"
      [] k = "s" -> "Width"
      [] k = "v" -> "Height"
      [] k = "S" -> "Size"
      [] k = "O" -> "Offset"
      [] k = "i" -> "ID"
      [] k = "I" -> "Number"
      [] k = "p" -> "Placement"
      [] k = "o" -> "Compression"
      [] k = "m" -> "More"
      [] OTHER -> "nil"

\* The codec before any call: the image of Encode or the buffer of
\* DecodeCommands, the locals of Encode (data, written) with what it has
\* handed to its writer, and the locals of DecodeCommands (b, size, commands), of
\* DecodeCommand (cb, sz, c) and of positiveIntegerDecoder (v, val, any).
Codec(at, png, b, flaw) ==
    [pc |-> at, png |-> png, flaw |-> flaw, data |-> <<>>, writes |-> <<>>,
     written |-> 0,
     b |-> b, size |-> 0, commands |-> <<>>, ret |-> 0,
     cb |-> <<>>, sz |-> 0, c |-> ZeroCommand, key |-> "NUL", v |-> <<>>,
     val |-> ZeroUint, any |-> FALSE]

\* Buffers for DecodeCommands, each with what makes it no well-formed
\* command at position 0, if anything.
DecodeInputs ==
    { [flaw |-> "prefix", b |-> <<ESC, "_", "X", "a", "=", "T", ";", ESC, "\\">>],
      [flaw |-> "prefix", b |-> <<ESC, "_", "G">>],
      [flaw |-> "no equals", b |-> <<ESC, "_", "G", "a", "T", ";", ESC, "\\">>],
      [flaw |-> "unknown key",
       b |-> <<ESC, "_", "G", "z", "=", "1", ";", ESC, "\\">>],
      [flaw |-> "empty value", b |-> <<ESC, "_", "G", "f", "=", ";", ESC, "\\">>],
      [flaw |-> "not a number",
       b |-> <<ESC, "_", "G", "s", "=", "x", ";", ESC, "\\">>],
      [flaw |-> "no terminator",
       b |-> <<ESC, "_", "G", "a", "=", "T", ";", "Q", "U", "J", "D">>],
      [flaw |-> "payload",
       b |-> <<ESC, "_", "G", "a", "=", "T", ";", "!", "!", "!", "!", ESC, "\\">>],
      [flaw |-> "none",
       b |-> <<ESC, "_", "G", "a", "=", "T", ",", "m", "=", "0", ";",
               "Q", "U", "J", "D", ESC, "\\">>],
      [flaw |-> "none",
       b |-> <<ESC, "_", "G", "a", "=", "T", ",", "m", "=", "1", ";",
               "Q", "U", "J", "D", ESC, "\\",
               ESC, "_", "G", "m", "=", "0", ";", "R", "U", "Z", "H", ESC, "\\",
               ESC, "_", "G", "m", "=", "0", ";", ESC, "\\">>],
      [flaw |-> "none",
       b |-> <<ESC, "_", "G", "m", "=", "1", ";", "Q", "U", "J", "D", ESC, "\\",
               "x", "y">>],
      [flaw |-> "none",
       b |-> <<ESC, "_", "G", "a", "=", "T", ";", "Q", "Q", "=", "=", ESC, "\\">>],
      [flaw |-> "none",
       b |-> <<ESC, "_", "G", "f", "=", "1", "0", "0", ",", "a", "=", "T", ";",
               "Q", "U", "J", "D", ESC, "\\">>],
      [flaw |-> "none",
       b |-> <<ESC, "_", "G", "i", "=", "0", ";", "Q", "U", "J", "D", ESC, "\\">>] }

\* A call of DecodeCommands on a buffer, or a call of Encode on an image whose
\* output is then handed to DecodeCommands.
KittyInit ==
    /\ wordWrap = 0
    /\ softBreak = FALSE
    /\ theme = NoTheme
    /\ images = FALSE
    /\ sink = NeverFails
    /\ NewRenderer
    /\ view = NoView
    /\ api = NoCalls
    /\ index = NoIndex
    /\ kitty \in {Codec("ready", <<>>, in.b, in.flaw) : in \in DecodeInputs}
                 \cup {Codec("image", PNG(n), <<>>, "none") : n \in ImageSizes}

\* Encode up to its loop: "data := buf.Bytes()" is read while the encoder's
\* Close is still deferred.
Encoded(k) == [k EXCEPT !.pc = "frames", !.data = Base64Streamed(k.png)]

EncodeEnter ==
    /\ kitty.pc = "image"
    /\ kitty' = Encoded(kitty)
    /\ UNCHANGED <<rendering, view, index>>

\* The calls of fprintf and w.Write of one pass of Encode's loop, with a
\* writer that takes every byte.
EncodeFrame(written, b, more) ==
    << IF written = 0
       THEN <<ESC, "_", "G", "f", "=", "1", "0", "0", ",", "a", "=", "T", ",">>
       ELSE <<ESC, "_", "G">>,
       <<"m", "=", IF more THEN "1" ELSE "0", ";">>,
       b,
       <<ESC, "\\">> >>

\* One pass of Encode's loop, or its return, after which the caller hands
\* what was written to DecodeCommands.
EncodeLoop ==
    /\ kitty.pc = "frames"
    /\ kitty' =
         IF Len(kitty.data) = 0
         THEN [kitty EXCEPT !.pc = "ready", !.b = Concat(kitty.writes)]
         ELSE IF Len(kitty.data) > FrameSize
         THEN [kitty EXCEPT
                 !.writes = @ \o EncodeFrame(kitty.written,
                                    SubSeq(kitty.data, 1, FrameSize), TRUE),
                 !.written = @ + FrameSize + 9
                             + IF kitty.written = 0 THEN 10 ELSE 0,
                 !.data = SubSeq(@, FrameSize + 1, Len(@))]
         ELSE [kitty EXCEPT
                 !.writes = @ \o EncodeFrame(kitty.written, kitty.data, FALSE),
                 !.written = @ + Len(kitty.data) + 9
                             + IF kitty.written = 0 THEN 10 ELSE 0,
                 !.data = <<>>]
    /\ UNCHANGED <<rendering, view, index>>

\* DecodeCommands once DecodeCommand has returned sz: the end at 0 or after a
\* command without the more flag, the next command otherwise.
Decoded(k, sz) ==
    IF sz = 0 THEN [k EXCEPT !.pc = "done", !.ret = 0]
    ELSE [k EXCEPT !.pc = IF k.c.More THEN "ready" ELSE "done",
                   !.ret = sz,
                   !.commands = Append(@, k.c),
                   !.b = SubSeq(@, sz + 1, Len(@)),
                   !.size = @ + sz]

\* DecodeCommand up to its loop over the control data.
DecodeCommandEnter ==
    /\ kitty.pc = "ready"
    /\ kitty' =
         IF \/ Len(kitty.b) < 5
            \/ kitty.b[1] # ESC \/ kitty.b[2] # "_" \/ kitty.b[3] # "G"
         THEN Decoded(kitty, 0)
         ELSE [kitty EXCEPT !.pc = "control",
                            !.cb = SubSeq(kitty.b, 4, Len(kitty.b)),
                            !.sz = 3, !.c = ZeroCommand]
    /\ UNCHANGED <<rendering, view, index>>

\* "find the extent of the value": the bytes of b before the first "," or ";".
ValueLen(b) ==
    CHOOSE n \in 0..Len(b) :
        /\ \A i \in 1..n : b[i] \notin {",", ";"}
        /\ n = Len(b) \/ b[n + 1] \in {",", ";"}

\* boolDecoder and singleCharacterDecoder called with v for the key k.
ByteDecoded(k, key, v) ==
    IF Len(v) < 1 THEN Decoded(k, 0)
    ELSE IF key = "m" THEN [k EXCEPT !.c.More = (v[1] # "0")]
    ELSE [k EXCEPT !.c[KeyField(key)] = v[1]]

\* "decode the value": the decoder the switch chose is called with v; no case
\* of the switch matches any other key, and the call of the nil decoder
\* panics.
ValueDecoded(k, key, v) ==
    CASE KeyField(key) = "nil" -> [k EXCEPT !.pc = "panic"]
      [] KeyField(key) \in {"Action", "Quiet", "Compression", "More"} ->
             ByteDecoded(k, key, v)
      [] OTHER -> [k EXCEPT !.pc = "digits", !.key = key, !.v = v,
                            !.val = ZeroUint, !.any = FALSE]

\* One pass of the loop over the control data with the key k read: the "="
\* and the value up to its "," or ";".  v starts as b[:0] and "v = v[:1]" in
\* every pass of the inner loop leaves it at the value's first byte.
KeyValue(k, key, b) ==
    IF Len(b) < 2 \/ b[1] # "=" THEN Decoded(k, 0)
    ELSE LET value == Tail(b)
             n == ValueLen(value)
             comma == n < Len(value) /\ value[n + 1] = ","
             used == IF comma THEN n + 1 ELSE n
         IN  ValueDecoded([k EXCEPT !.cb = SubSeq(value, used + 1, Len(value)),
                                    !.sz = @ + 2 + used],
                          key, SubSeq(value, 1, IF n > 0 THEN 1 ELSE 0))

\* One pass of DecodeCommand's loop over the control data.
DecodeControl ==
    /\ kitty.pc = "control"
    /\ kitty' =
         IF Len(kitty.cb) = 0 THEN [kitty EXCEPT !.pc = "payload"]
         ELSE IF kitty.cb[1] = ";"
         THEN [kitty EXCEPT !.pc = "payload", !.cb = Tail(@), !.sz = @ + 1]
         ELSE KeyValue(kitty, kitty.cb[1], Tail(kitty.cb))
    /\ UNCHANGED <<rendering, view, index>>

\* positiveIntegerDecoder: one pass of its loop, which reads b[0] and leaves
\* b as it is, or the statements after the loop.
positiveIntegerDecoder(k) ==
    IF Len(k.v) > 0
    THEN IF ~IsDigit(k.v[1]) THEN Decoded(k, 0)
         ELSE [k EXCEPT !.val = TimesTenPlus(@, DigitOf(k.v[1])), !.any = TRUE]
    ELSE IF ~k.any THEN Decoded(k, 0)
    ELSE [k EXCEPT !.c[KeyField(k.key)] = k.val, !.pc = "control"]

DecodeInteger ==
    /\ kitty.pc = "digits"
    /\ kitty' = positiveIntegerDecoder(kitty)
    /\ UNCHANGED <<rendering, view, index>>

\* bytes.Index(b, []byte{0x1b, '\\'}), counted from 0, and -1 for none.
Terminator(b) ==
    IF \E i \in 1..(Len(b) - 1) : b[i] = ESC /\ b[i + 1] = "\\"
    THEN (CHOOSE i \in 1..(Len(b) - 1) :
             /\ b[i] = ESC /\ b[i + 1] = "\\"
             /\ \A j \in 1..(i - 1) : ~(b[j] = ESC /\ b[j + 1] = "\\")) - 1
    ELSE -1

\* "decode the payload" with the terminator found at the offset at.
PayloadDecoded(k, at, got) ==
    IF got.err \/ Len(got.bytes) # DecodedLen(at) THEN Decoded(k, 0)
    ELSE Decoded([k EXCEPT !.c.Payload = got.bytes], k.sz + at + 2)

DecodePayload ==
    /\ kitty.pc = "payload"
    /\ kitty' =
         IF Terminator(kitty.cb) = -1 THEN Decoded(kitty, 0)
         ELSE PayloadDecoded(kitty, Terminator(kitty.cb),
                  Base64Decode(SubSeq(kitty.cb, 1, Terminator(kitty.cb))))
    /\ UNCHANGED <<rendering, view, index>>

KittyNext ==
    \/ EncodeEnter
    \/ EncodeLoop
    \/ DecodeCommandEnter
    \/ DecodeControl
    \/ DecodeInteger
    \/ DecodePayload

KittySpec == KittyInit /\ [][KittyNext]_vars

\* The codec's calls run on: a call that can take a step takes it.
KittyLiveSpec == KittySpec /\ WF_vars(KittyNext)

\* ------------------------------------------------------- the MarkdownView

\* The most nodes of a document the view renders, and the most selection
\* keys pressed on one view.
MaxViewNodes == 6

MaxSelects == 3

\* The nodes of the documents the view shows.
ViewHeadingInputs == { [level |-> 1, setext |-> FALSE] }

ViewTextInputs ==
    { [value |-> <<"a">>, break |-> "none"],
      [value |-> <<"b", SP>>, break |-> "none"] }

ViewLinkInputs ==
    { [refType |-> "none", label |-> <<>>, dest |-> <<"u">>, title |-> <<>>] }

\* NewMarkdownView(nil) after SetText, with the history of the selection
\* calls: how many there were, and the last one's name, selector and the
\* selection it found.  A nil mv.lines is the empty sequence; mark is the
\* number of NodeSpans allocated before the newest render began, current that
\* the newest render is one of the text and wrap flag the view has now, and
\* sets and draws count the calls that change the text or the flag and the
\* calls of Draw that render again.  mutex is who holds the view's
\* sync.Mutex, and access the last call that read or wrote the draw state:
\* its name, whether the caller held the mutex and whether a Draw did.
NewMarkdownView ==
    [pc |-> "new", spanTree |-> Nil, selection |-> Nil, selectionStart |-> 0,
     selectionEnd |-> 0, highlightSelection |-> FALSE, lines |-> <<>>,
     lineOffset |-> 0, calls |-> 0,
     last |-> [op |-> "none", selector |-> "none", from |-> Nil],
     loop |-> [offset |-> 0, start |-> 0, end |-> 0, odd |-> FALSE],
     document |-> "parsed", wrap |-> TRUE, mark |-> 0, current |-> FALSE,
     sets |-> 0, draws |-> 0, mutex |-> "free",
     access |-> [op |-> "none", holds |-> FALSE, drawing |-> FALSE]]

\* The view renders with renderer.New(WithTheme(mv.theme), WithHyperlinks(true),
\* WithWordWrap(wrap)), where wrap is the width or 0.
ViewInit ==
    /\ wordWrap \in {0, WrapWidth}
    /\ softBreak = FALSE
    /\ theme = NoTheme
    /\ images = FALSE
    /\ sink = NeverFails
    /\ NewRenderer
    /\ kitty = NoCodec
    /\ api = NoCalls
    /\ index = NoIndex
    /\ view = [NewMarkdownView EXCEPT !.wrap = (wordWrap > 0)]

\* Renderer.renderLinkOrImage with r.hyperlinks set.
Hyperlink(s, node, enter) ==
    renderHyperlink(IF enter THEN OpenSpan(s, node) ELSE CloseSpan(s), enter)

\* Renderer.RenderLink with r.hyperlinks set, enter
RenderHyperlinkEnter ==
    /\ CanVisitUpTo(InlineParents, MaxViewNodes)
    /\ \A i \in DOMAIN path : path[i].kind # "Link"
    /\ \E in \in ViewLinkInputs :
         LET entry == Entry("Link", FALSE, in)
         IN  Descend(Hyperlink(Cur, NodeOf(entry), TRUE), "Link", entry)

\* Renderer.RenderLink with r.hyperlinks set, exit
RenderHyperlinkExit ==
    /\ CanLeave("Link")
    /\ Top(path).nkids > 0
    /\ Ascend(Hyperlink(Cur, Nil, FALSE))

\* The graphemes lineWriter.flushLine appends for the bytes b, the first of
\* them at the byte offset at.
RECURSIVE appendGraphemes(_, _)
appendGraphemes(b, at) ==
    IF b = <<>> THEN <<>>
    ELSE <<[start |-> at, end |-> at + ByteLen(Head(b)), rune |-> Head(b)]>>
         \o appendGraphemes(Tail(b), at + ByteLen(Head(b)))

\* lineWriter.flushLine for a buffer without control sequences.
flushLine(buf, byteOffset0) ==
    [start |-> byteOffset0, end |-> byteOffset0 + NBytes(buf),
     graphemes |-> appendGraphemes(buf, byteOffset0)]

\* lineWriter.Write over all the bytes of a render, and render's last
\* flushLine: a line ends at each newline, which is kept as a space.
RECURSIVE LinesOf(_, _)
LinesOf(b, byteOffset0) ==
    IF b = <<>> THEN <<>>
    ELSE IF IndexByte(b, NL) = 0 THEN <<flushLine(b, byteOffset0)>>
    ELSE <<flushLine(Append(SubSeq(b, 1, IndexByte(b, NL) - 1), SP), byteOffset0)>>
         \o LinesOf(SubSeq(b, IndexByte(b, NL) + 1, Len(b)),
                    byteOffset0 + NBytes(SubSeq(b, 1, IndexByte(b, NL))))

\* MarkdownView.render after renderer.Render has returned: the lines and the
\* span tree of the render, or the line of the error message; Draw, which
\* called it, returns and its deferred Unlock runs.
render ==
    /\ view.pc = "new"
    /\ pc \in {"done", "faulted"}
    /\ view' = IF fault # "none"
               THEN [view EXCEPT !.pc = "drawn", !.mutex = "free",
                                 !.lines = <<[start |-> 0, end |-> 0,
                                              graphemes |-> <<>>]>>]
               ELSE [view EXCEPT !.pc = "drawn", !.mutex = "free",
                                 !.spanTree = rootSpan,
                                 !.lines = LinesOf(out, 0), !.current = TRUE]
    /\ UNCHANGED <<rendering, kitty, index>>

\* A nil *grapheme.
NoGrapheme == [start |-> -1, end |-> -1, rune |-> "nil"]

\* sort.Search(n, f) for a predicate that holds from some index on: the
\* least index in 1..n whose element satisfies it, n + 1 for none.
Search(seq, at) ==
    IF \E i \in DOMAIN seq : seq[i].end >= at
    THEN CHOOSE i \in DOMAIN seq :
             /\ seq[i].end >= at
             /\ \A j \in 1..(i - 1) : seq[j].end < at
    ELSE Len(seq) + 1

\* The second half of MarkdownView.grapheme: the search in the line found.
graphemeIn(l, at) ==
    IF Search(l.graphemes, at) > Len(l.graphemes)
       \/ at < l.graphemes[Search(l.graphemes, at)].start
    THEN NoGrapheme
    ELSE l.graphemes[Search(l.graphemes, at)]

\* MarkdownView.grapheme
grapheme(lines, at) ==
    IF Search(lines, at) > Len(lines) \/ at < lines[Search(lines, at)].start
    THEN NoGrapheme
    ELSE graphemeIn(lines[Search(lines, at)], at)

\* grapheme.isSpace
isSpace(g) == IsSpace(g.rune)

\* The first loop of calculateSelectionSpan.
RECURSIVE TrimStart(_, _, _)
TrimStart(lines, start, end) ==
    IF start >= end THEN start
    ELSE IF grapheme(lines, start) = NoGrapheme
            \/ ~isSpace(grapheme(lines, start))
    THEN start
    ELSE TrimStart(lines, grapheme(lines, start).end + 1, end)

\* The second loop of calculateSelectionSpan.
RECURSIVE TrimEnd(_, _, _)
TrimEnd(lines, start, end) ==
    IF end <= start THEN end
    ELSE IF grapheme(lines, end - 1) = NoGrapheme
            \/ ~isSpace(grapheme(lines, end - 1))
    THEN end
    ELSE TrimEnd(lines, start, grapheme(lines, end - 1).start)

\* MarkdownView.calculateSelectionSpan
calculateSelectionSpan(v, span) ==
    [v EXCEPT !.selectionStart = TrimStart(v.lines, span.Start, span.End),
              !.selectionEnd = TrimEnd(v.lines,
                                       TrimStart(v.lines, span.Start, span.End),
                                       span.End)]

\* The loop of scrollToOffset over the lines start..end-1, counted from 0;
\* -1 when the loop ends without a line, -2 when it never ends: "start = i"
\* leaves start as it is once end is start + 1.
RECURSIVE ScrollLine(_, _, _, _)
ScrollLine(lines, offset, start, end) ==
    IF start = end THEN -1
    ELSE IF offset < lines[start + ((end - start) \div 2) + 1].start
    THEN ScrollLine(lines, offset, start, start + ((end - start) \div 2))
    ELSE IF offset >= lines[start + ((end - start) \div 2) + 1].end
    THEN IF (end - start) \div 2 = 0 THEN -2
         ELSE ScrollLine(lines, offset, start + ((end - start) \div 2), end)
    ELSE start + ((end - start) \div 2)

\* The view once the loop of scrollToOffset has come to the line i.
Scrolled(v, i) ==
    IF i = -2 THEN [v EXCEPT !.pc = "hang"]
    ELSE IF i = -1 THEN v
    ELSE [v EXCEPT !.lineOffset = i]

\* MarkdownView.scrollToOffset
scrollToOffset(v, offset) ==
    Scrolled(v, ScrollLine(v.lines, offset, 0, Len(v.lines)))

\* The selectors the input handler uses: isLink for "[" and "]", isHeading
\* for "{" and "}", and a function that returns true, true for Ctrl-[ and
\* Ctrl-].
Selectors == {"isLink", "isHeading", "any"}

isLink(n) ==
    IF n.kind \in {"AutoLink", "Image", "Link"}
    THEN [highlight |-> TRUE, ok |-> TRUE]
    ELSE [highlight |-> FALSE, ok |-> FALSE]

isHeading(n) == [highlight |-> FALSE, ok |-> n.kind = "Heading"]

Selector(name, n) ==
    CASE name = "isLink" -> isLink(n)
      [] name = "isHeading" -> isHeading(n)
      [] OTHER -> [highlight |-> TRUE, ok |-> TRUE]

\* The loop of SelectNext and SelectPrevious from its first cursor on: the
\* span it stops at, nil when it runs off the list.
RECURSIVE FirstMatch(_, _, _)
FirstMatch(cursor, selector, field) ==
    IF cursor = Nil THEN Nil
    ELSE IF Selector(selector, spans[cursor].Node).ok THEN cursor
    ELSE FirstMatch(spans[cursor][field], selector, field)

\* The body of the loop once the selector has accepted the span hit.
Selected(v, selector, hit) ==
    IF hit = Nil THEN v
    ELSE scrollToOffset(
             calculateSelectionSpan(
                 [v EXCEPT !.highlightSelection =
                               Selector(selector, spans[hit].Node).highlight,
                           !.selection = hit],
                 spans[hit]),
             spans[hit].Start)

\* SelectNext and SelectPrevious after "cursor := mv.selection" and the
\* nil check: "cursor = cursor.Next" before the loop, and once more where
\* the loop begins.  A nil cursor is dereferenced.
Select(v, selector, field, cursor) ==
    IF cursor = Nil THEN [v EXCEPT !.pc = "panic"]
    ELSE IF spans[cursor][field] = Nil THEN v
    ELSE Selected(v, selector,
                  FirstMatch(spans[spans[cursor][field]][field], selector, field))

\* The view as a selection call finds it, with the call noted.
Called(op, selector) ==
    [view EXCEPT !.calls = @ + 1,
                 !.last = [op |-> op, selector |-> selector,
                           from |-> view.selection]]

\* A key is handled: the view was drawn, or was never drawn.
CanSelect ==
    /\ view.calls < MaxSelects
    /\ \/ view.pc = "drawn"
       \/ view.pc = "new" /\ pc = "idle"

\* MarkdownView.SelectPrevious
SelectPrevious ==
    /\ CanSelect
    /\ \E selector \in Selectors :
         view' = Select(Called("SelectPrevious", selector), selector, "Prev",
                        IF view.selection = Nil THEN view.spanTree
                        ELSE view.selection)
    /\ UNCHANGED <<rendering, kitty, index>>

\* MarkdownView.SelectNext
SelectNext ==
    /\ CanSelect
    /\ \E selector \in Selectors :
         view' = Select(Called("SelectNext", selector), selector, "Next",
                        IF view.selection = Nil THEN view.spanTree
                        ELSE view.selection)
    /\ UNCHANGED <<rendering, kitty, index>>

\* A view draws a document of headings, paragraphs, links and text, and its
\* selection keys are pressed.
ViewNext ==
    \/ RenderDocumentEnter
    \/ RenderDocumentExit
    \/ RenderHeadingEnterOf(ViewHeadingInputs, MaxViewNodes)
    \/ RenderHeadingExit
    \/ RenderParagraphEnterUpTo(MaxViewNodes)
    \/ RenderParagraphExit
    \/ RenderHyperlinkEnter
    \/ RenderHyperlinkExit
    \/ RenderTextOf(ViewTextInputs, MaxViewNodes)
    \/ render
    \/ SelectPrevious
    \/ SelectNext

ViewSpec == ViewInit /\ [][ViewNext]_vars

\* ------------------------------------------------- the view drawn again

\* The most nodes of a document of a view that is drawn again, the most
\* calls of SetText, Clear and SetWrap on it, and the most calls of Draw that
\* render again.
MaxRedrawNodes == 3

MaxSets == 2

MaxDraws == 1

\* The program calls a setter between two draws.
CanSet == view.pc = "drawn" /\ view.sets < MaxSets

\* The body of Clear or of SetText, which leaves a document or none.
Cleared(v, document) ==
    [v EXCEPT !.lines = <<>>, !.document = document, !.current = FALSE,
              !.sets = @ + 1]

\* The body of SetWrap.
Wrapped(v, flag) ==
    [v EXCEPT !.lines = IF v.wrap # flag THEN <<>> ELSE @,
              !.current = IF v.wrap # flag THEN FALSE ELSE @,
              !.wrap = flag,
              !.sets = @ + 1]

\* MarkdownView.Clear
Clear ==
    /\ CanSet
    /\ view' = Cleared(view, "nil")
    /\ UNCHANGED <<rendering, kitty, index>>

\* MarkdownView.SetText: Clear, and the text parsed.
SetText ==
    /\ CanSet
    /\ view' = Cleared(view, "parsed")
    /\ UNCHANGED <<rendering, kitty, index>>

\* MarkdownView.SetWrap
SetWrap ==
    /\ CanSet
    /\ \E flag \in BOOLEAN : view' = Wrapped(view, flag)
    /\ UNCHANGED <<rendering, kitty, index>>

\* MarkdownView.Draw up to the call of goldmark's Render in mv.render: the
\* lines are dropped when the width has changed and the view wraps, render
\* returns when there are lines or no document, and renders with a Renderer
\* of its own otherwise.  The NodeSpans of the renders before stay where
\* they are, and whatever points at them still does.  "mv.Lock()" is the
\* first statement of Draw.
Draw ==
    /\ view.pc = "drawn"
    /\ view.mutex = "free"
    /\ view.draws < MaxDraws
    /\ view.document # "nil"
    /\ \E resized \in BOOLEAN : view.lines = <<>> \/ (resized /\ view.wrap)
    /\ view' = [view EXCEPT !.pc = "new", !.lines = <<>>,
                            !.mark = Len(spans), !.draws = @ + 1,
                            !.mutex = "Draw",
                            !.access = [op |-> "Draw", holds |-> TRUE,
                                        drawing |-> TRUE]]
    /\ wordWrap' = IF view.wrap THEN WrapWidth ELSE 0
    /\ styles' = <<>>
    /\ pushes' = 0
    /\ styleTrail' = [call |-> "none", before |-> DefaultAttrs, zero |-> FALSE,
                      calls |-> 0]
    /\ listStack' = <<>>
    /\ openBlocks' = <<>>
    /\ wrapping' = <<>>
    /\ spanStack' = <<>>
    /\ lastSpan' = Nil
    /\ rootSpan' = Nil
    /\ prefixStack' = <<>>
    /\ prefix' = <<>>
    /\ wordBuffer' = <<>>
    /\ lineWidth' = 0
    /\ atNewline' = FALSE
    /\ byteOffset' = 0
    /\ out' = <<>>
    /\ fault' = "none"
    /\ path' = <<>>
    /\ nodes' = 0
    /\ pc' = "idle"
    /\ given' = <<>>
    /\ prefixAt' = <<>>
    /\ lineBegins' = <<>>
    /\ rawLines' = {}
    /\ tightLines' = {}
    /\ tableStack' = <<>>
    /\ inImage' = FALSE
    /\ UNCHANGED <<softBreak, theme, images, sink, spans, renders, api, kitty,
                   index>>

\* A view with a document of headings and text is drawn, its selection keys
\* are pressed, its text and wrap flag are set, and it is drawn again.
RedrawInit ==
    /\ wordWrap = WrapWidth
    /\ softBreak = FALSE
    /\ theme = NoTheme
    /\ images = FALSE
    /\ sink = NeverFails
    /\ NewRenderer
    /\ kitty = NoCodec
    /\ api = NoCalls
    /\ index = NoIndex
    /\ view = NewMarkdownView

RedrawNext ==
    \/ RenderDocumentEnter
    \/ RenderDocumentExit
    \/ RenderHeadingEnterOf(ViewHeadingInputs, MaxRedrawNodes)
    \/ RenderHeadingExit
    \/ RenderTextOf(ViewTextInputs, MaxRedrawNodes)
    \/ render
    \/ SelectPrevious
    \/ SelectNext
    \/ Clear
    \/ SetText
    \/ SetWrap
    \/ Draw

RedrawSpec == RedrawInit /\ [][RedrawNext]_vars

\* ------------------------------------- the view drawn and called at once

\* The most nodes of a document of a view that is called while it is drawn.
MaxRaceNodes == 2

\* The view after a call that took no lock: the call is noted with whether a
\* Draw held the mutex when it ran.
Unlocked(op, v) ==
    [v EXCEPT !.access = [op |-> op, holds |-> FALSE,
                          drawing |-> view.mutex = "Draw"]]

\* Another goroutine than the one that draws calls the view: nothing makes it
\* wait for a Draw that has begun.
Meanwhile == view.pc \in {"new", "drawn"}

\* MarkdownView.SetText, which takes no lock.
SetTextMeanwhile ==
    /\ Meanwhile
    /\ view.sets < MaxSets
    /\ view' = Unlocked("SetText", Cleared(view, "parsed"))
    /\ UNCHANGED <<rendering, kitty, index>>

\* MarkdownView.SetWrap, which takes no lock.
SetWrapMeanwhile ==
    /\ Meanwhile
    /\ view.sets < MaxSets
    /\ \E flag \in BOOLEAN : view' = Unlocked("SetWrap", Wrapped(view, flag))
    /\ UNCHANGED <<rendering, kitty, index>>

\* The input handler on the keys g, j and k, which takes no lock:
\* "mv.lineOffset = 0", "mv.lineOffset++" and "mv.lineOffset--".
ScrollKeyMeanwhile ==
    /\ Meanwhile
    /\ view.calls < MaxSelects
    /\ \E to \in {0, view.lineOffset + 1, view.lineOffset - 1} :
         view' = Unlocked("InputHandler",
                          [view EXCEPT !.lineOffset = to, !.calls = @ + 1])
    /\ UNCHANGED <<rendering, kitty, index>>

\* The input handler on the selection keys, which takes no lock and calls
\* SelectNext or SelectPrevious, which take none.
SelectKeyMeanwhile ==
    /\ Meanwhile
    /\ view.calls < MaxSelects
    /\ \E selector \in Selectors, field \in {"Next", "Prev"} :
         view' = Unlocked("InputHandler",
                          Select(Called(field, selector), selector, field,
                                 IF view.selection = Nil THEN view.spanTree
                                 ELSE view.selection))
    /\ UNCHANGED <<rendering, kitty, index>>

\* A view whose text is set and that has not been drawn.
RaceInit ==
    /\ wordWrap = WrapWidth
    /\ softBreak = FALSE
    /\ theme = NoTheme
    /\ images = FALSE
    /\ sink = NeverFails
    /\ NewRenderer
    /\ kitty = NoCodec
    /\ api = NoCalls
    /\ index = NoIndex
    /\ view = [NewMarkdownView EXCEPT !.pc = "drawn"]

\* The application's draw loop draws the view while its other goroutines
\* call it.
RaceNext ==
    \/ Draw
    \/ RenderDocumentEnter
    \/ RenderDocumentExit
    \/ RenderHeadingEnterOf(ViewHeadingInputs, MaxRaceNodes)
    \/ RenderHeadingExit
    \/ render
    \/ SetTextMeanwhile
    \/ SetWrapMeanwhile
    \/ ScrollKeyMeanwhile
    \/ SelectKeyMeanwhile

RaceSpec == RaceInit /\ [][RaceNext]_vars

\* ------------------------------------------ scrollToOffset, turn by turn

\* The most bytes of a rendered text the view scrolls in.
MaxScrollBytes == 5

\* The rendered texts: bytes and newlines.
RECURSIVE ScrollTexts(_)
ScrollTexts(n) ==
    IF n = 0 THEN {<<>>}
    ELSE ScrollTexts(n - 1)
         \cup {Append(b, c) : b \in ScrollTexts(n - 1), c \in {"a", NL}}

\* A view that has rendered a text, as scrollToOffset(offset) finds it after
\* "start, end := 0, len(mv.lines)"; odd tells whether the loop has taken an
\* odd number of turns.
ScrollInit ==
    /\ wordWrap = 0
    /\ softBreak = FALSE
    /\ theme = NoTheme
    /\ images = FALSE
    /\ sink = NeverFails
    /\ NewRenderer
    /\ kitty = NoCodec
    /\ api = NoCalls
    /\ index = NoIndex
    /\ \E b \in ScrollTexts(MaxScrollBytes), offset \in 0..(MaxScrollBytes + 1),
          lineOffset0 \in {0, MaxScrollBytes} :
         view = [NewMarkdownView EXCEPT
                     !.pc = "scrolling",
                     !.lines = LinesOf(b, 0),
                     !.lineOffset = lineOffset0,
                     !.last = [op |-> "scrollToOffset", selector |-> "none",
                               from |-> lineOffset0],
                     !.loop = [offset |-> offset, start |-> 0,
                               end |-> Len(LinesOf(b, 0)), odd |-> FALSE]]

\* "i := start + (end-start)/2"
ScrollMiddle == view.loop.start + ((view.loop.end - view.loop.start) \div 2)

\* "for start != end" with the loop's body to run
InLoop == view.pc = "scrolling" /\ view.loop.start # view.loop.end

\* "for start != end" once start is end: the call returns.
ScrollOut ==
    /\ view.pc = "scrolling"
    /\ view.loop.start = view.loop.end
    /\ view' = [view EXCEPT !.pc = "returned"]
    /\ UNCHANGED <<rendering, kitty, index>>

\* "case offset < l.start: end = i"
ScrollBefore ==
    /\ InLoop
    /\ view.loop.offset < view.lines[ScrollMiddle + 1].start
    /\ view' = [view EXCEPT !.loop.end = ScrollMiddle, !.loop.odd = ~@]
    /\ UNCHANGED <<rendering, kitty, index>>

\* "case offset >= l.end: start = i"
ScrollAfter ==
    /\ InLoop
    /\ view.loop.offset >= view.lines[ScrollMiddle + 1].start
    /\ view.loop.offset >= view.lines[ScrollMiddle + 1].end
    /\ view' = [view EXCEPT !.loop.start = ScrollMiddle, !.loop.odd = ~@]
    /\ UNCHANGED <<rendering, kitty, index>>

\* "default: mv.lineOffset = i; return"
ScrollFound ==
    /\ InLoop
    /\ view.loop.offset >= view.lines[ScrollMiddle + 1].start
    /\ view.loop.offset < view.lines[ScrollMiddle + 1].end
    /\ view' = [view EXCEPT !.lineOffset = ScrollMiddle, !.pc = "returned"]
    /\ UNCHANGED <<rendering, kitty, index>>

ScrollNext ==
    \/ ScrollOut
    \/ ScrollBefore
    \/ ScrollAfter
    \/ ScrollFound

ScrollSpec == ScrollInit /\ [][ScrollNext]_vars

\* The loop runs on its own goroutine's time: a turn that can be taken is
\* taken.
ScrollLiveSpec == ScrollSpec /\ WF_vars(ScrollNext)

\* ------------------------------------------- the index of the headings

\* The most nodes under the document that is indexed.
MaxIndexNodes == 3

\* The texts and levels of the headings.
HeadingTexts == { <<"A">>, <<"a">>, <<"b", "!">>, <<"a", SP, "b">> }

HeadingLevels == {1, 2, 3}

\* strings.ToLower on the letters of HeadingTexts.
ToLower(heading) ==
    [i \in DOMAIN heading |-> IF heading[i] = "A" THEN "a" ELSE heading[i]]

\* GitHubFlavoredMarkdown: lower case, the bytes that [^\w\- ] matches removed,
\* and a hyphen for every space.
GitHubFlavoredMarkdown(heading) ==
    LET kept == SelectSeq(ToLower(heading),
                          LAMBDA c : c \in {"a", "b", "_", "-", SP})
    IN  [i \in DOMAIN kept |-> IF kept[i] = SP THEN "-" ELSE kept[i]]

\* The children of the document: headings and paragraphs.
IndexNodes ==
    {[kind |-> "Paragraph", level |-> 0, text |-> <<>>]}
    \cup {[kind |-> "Heading", level |-> l, text |-> h] :
             l \in HeadingLevels, h \in HeadingTexts}

RECURSIVE Documents(_)
Documents(n) ==
    IF n = 0 THEN {<<>>}
    ELSE Documents(n - 1)
         \cup {Append(d, node) : d \in Documents(n - 1), node \in IndexNodes}

\* The keys the map of anchors can hold.
Anchors == {GitHubFlavoredMarkdown(h) : h \in HeadingTexts}

\* Index up to its call of ast.Walk: the section stack holds the Section of
\* the document, which is Section 1, starts at node 0 and has level 0.
IndexInit ==
    /\ wordWrap = 0
    /\ softBreak = FALSE
    /\ theme = NoTheme
    /\ images = FALSE
    /\ sink = NeverFails
    /\ NewRenderer
    /\ kitty = NoCodec
    /\ view = NoView
    /\ api = NoCalls
    /\ \E d \in Documents(MaxIndexNodes) :
         index = [pc |-> "walking", doc |-> d, at |-> 0,
                  sections |-> <<[Level |-> 0, Anchor |-> <<>>, Start |-> 0,
                                  End |-> Nil, Subsections |-> <<>>]>>,
                  sectionStack |-> <<1>>,
                  anchors |-> [a \in Anchors |-> <<>>]]

\* ast.Walk calls the walker twice for each node, with enter and without:
\* the node of the next call.
Walked == index.doc[(index.at \div 2) + 1]

\* The loop of indexer.walk: the sections that the heading closes are popped;
\* the stack is indexed even when it is empty.
RECURSIVE Unwind(_, _, _)
Unwind(x, level, heading) ==
    IF x.sectionStack = <<>> THEN [x EXCEPT !.pc = "panic"]
    ELSE IF level <= x.sections[Top(x.sectionStack)].Level
    THEN Unwind([x EXCEPT !.sections[Top(x.sectionStack)].End = heading,
                          !.sectionStack = Pop(@)], level, heading)
    ELSE x

\* The end of indexer.walk: the new Section number id becomes the last
\* subsection of the stack's top and is pushed.
Filed(x, id) ==
    IF x.pc = "panic" THEN x
    ELSE [x EXCEPT !.sections[Top(x.sectionStack)].Subsections = Append(@, id),
                   !.sectionStack = Append(@, id)]

\* indexer.walk on a heading, whatever enter is.
walkHeading ==
    /\ index.pc = "walking"
    /\ index.at < 2 * Len(index.doc)
    /\ Walked.kind = "Heading"
    /\ LET id == Len(index.sections) + 1
           node == (index.at \div 2) + 1
           anchor == GitHubFlavoredMarkdown(Walked.text)
           new == [index EXCEPT
                      !.at = @ + 1,
                      !.sections = Append(@, [Level |-> Walked.level,
                                              Anchor |-> anchor,
                                              Start |-> node, End |-> Nil,
                                              Subsections |-> <<>>]),
                      !.anchors[anchor] = Append(@, id)]
       IN  index' = Filed(Unwind(new, Walked.level, node), id)
    /\ UNCHANGED <<rendering, kitty, view>>

\* indexer.walk on a node that is no heading.
walkOther ==
    /\ index.pc = "walking"
    /\ index.at < 2 * Len(index.doc)
    /\ Walked.kind # "Heading"
    /\ index' = [index EXCEPT !.at = @ + 1]
    /\ UNCHANGED <<rendering, kitty, view>>

\* Index once ast.Walk has returned: the DocumentIndex is returned.
Index ==
    /\ index.pc = "walking"
    /\ index.at = 2 * Len(index.doc)
    /\ index' = [index EXCEPT !.pc = "indexed"]
    /\ UNCHANGED <<rendering, kitty, view>>

IndexNext ==
    \/ walkHeading
    \/ walkOther
    \/ Index

IndexSpec == IndexInit /\ [][IndexNext]_vars

\* ------------------------------------- the exported methods called directly

\* The most calls a program makes on one Renderer.
MaxCalls == 4

\* A wrap width that a line of WideLine is twice as wide as.
NarrowWrapWidth == 2

\* The arguments of the calls.
PrefixInputs == { <<">", SP>>, <<"-">> }

IndentInputs == {0, 2}

WriteInputs ==
    { <<"a">>, <<"a", NL>>, <<"a", SP, "b">>, <<"a", "b", "c", NL>>,
      <<"a", "b", "c", "d", NL>>, <<NL>> }

\* The call has returned to the program: its name, argument and returned
\* count are noted with the line prefix it found.
Returned(s, op, arg, pushed) ==
    [s EXCEPT !.api = [@ EXCEPT !.n = @ + 1, !.op = op, !.arg = arg,
                                !.ret = s.ret, !.before = prefix,
                                !.pushed = pushed]]

\* The program goes on after a call unless the call has panicked.
Call(s) ==
    /\ Commit(s)
    /\ pc' = IF s.fault # "none" THEN "faulted" ELSE "idle"
    /\ UNCHANGED <<nodes, path>>

\* The program can make another call.
CanCall == pc = "idle" /\ api.n < MaxCalls

\* r.PushPrefix(prefix)
CallPushPrefix ==
    /\ CanCall
    /\ \E p \in PrefixInputs :
         Call(Returned(PushPrefix(Cur, p), "PushPrefix", p,
                       Append(api.pushed, p)))

\* r.PushIndent(amount)
CallPushIndent ==
    /\ CanCall
    /\ \E amount \in IndentInputs :
         Call(Returned(PushIndent(Cur, amount), "PushIndent", <<amount>>,
                       Append(api.pushed, Repeat(SP, amount))))

\* r.PopPrefix(), for a push that no PopPrefix has matched yet.
CallPopPrefix ==
    /\ CanCall
    /\ api.pushed # <<>>
    /\ Call(Returned(PopPrefix(Cur), "PopPrefix", Top(api.pushed),
                     Pop(api.pushed)))

\* r.PushWordWrap(wrap)
CallPushWordWrap ==
    /\ CanCall
    /\ Len(wrapping) < 2
    /\ \E wrap \in BOOLEAN :
         Call(Returned(PushWordWrap(Cur, wrap), "PushWordWrap", <<wrap>>,
                       api.pushed))

\* r.PopWordWrap(), for a PushWordWrap that no PopWordWrap has matched yet.
CallPopWordWrap ==
    /\ CanCall
    /\ wrapping # <<>>
    /\ Call(Returned(PopWordWrap(Cur), "PopWordWrap", <<>>, api.pushed))

\* r.Write(w, buf), or a Write on the io.Writer that r.Writer(w) returns,
\* which hands buf to r.Write and returns what it returns.
CallWrite ==
    /\ CanCall
    /\ \E buf \in WriteInputs :
         Call(Returned(Write(Cur, buf), "Write", buf, api.pushed))

\* New(WithWordWrap(wrap)) with any of three wrap widths.
ApiInit ==
    /\ wordWrap \in {0, NarrowWrapWidth, WrapWidth}
    /\ softBreak = FALSE
    /\ theme = NoTheme
    /\ images = FALSE
    /\ sink = NeverFails
    /\ NewRenderer
    /\ RendererOnly

\* A program calls the exported methods of a Renderer in any order that
\* matches every pop with a push.
ApiNext ==
    \/ CallPushPrefix
    \/ CallPushIndent
    \/ CallPopPrefix
    \/ CallPushWordWrap
    \/ CallPopWordWrap
    \/ CallWrite

ApiSpec == ApiInit /\ [][ApiNext]_vars

\* -------------------------------------------------------------- properties

\* The Render call has returned or panicked.
Ended == pc \in {"done", "faulted"}

\* The complete lines of o: what stands between its newlines, the bytes after
\* the last newline left out.
RECURSIVE CompleteLines(_)
CompleteLines(o) ==
    LET i == IndexByte(o, NL)
    IN  IF i = 0 THEN <<>>
        ELSE <<SubSeq(o, 1, i - 1)>> \o CompleteLines(SubSeq(o, i + 1, Len(o)))

\* The maximal runs of non-whitespace bytes of o, in order.
RECURSIVE WordsFrom(_, _)
WordsFrom(o, word) ==
    IF o = <<>> THEN (IF word = <<>> THEN <<>> ELSE <<word>>)
    ELSE IF IsSpace(Head(o))
         THEN (IF word = <<>> THEN <<>> ELSE <<word>>) \o WordsFrom(Tail(o), <<>>)
         ELSE WordsFrom(Tail(o), Append(word, Head(o)))

Words(o) == WordsFrom(o, <<>>)

Range(seq) == {seq[i] : i \in 1 .. Len(seq)}

\* The spans that have been closed.
Closed == {n \in 1 .. Len(spans) : \A i \in 1 .. Len(spanStack) : spanStack[i] # n}

\* The root span covers the whole output and its children tile it.
RootSpanTiles ==
    /\ rootSpan # Nil
    /\ LET root == spans[rootSpan]
           kids == root.Children
       IN  /\ root.Start = 0
           /\ root.End = NBytes(out)
           /\ kids # <<>> => /\ spans[kids[1]].Start = 0
                             /\ spans[kids[Len(kids)]].End = NBytes(out)
           /\ \A i \in 1 .. Len(kids) - 1 :
                  spans[kids[i]].End = spans[kids[i + 1]].Start

\* C1: a render with no theme and wrap width 0 completes without a fault
\* and, where no line prefix is involved, its output is exactly the bytes the
\* handlers handed to Write, with no padding and no newline of the writer's own.
C1_PlainRenderIsPassthrough ==
    (wordWrap = 0 /\ Ended) => (pc = "done" /\ (prefixAt = <<>> => out = given))

\* C2: after a render with no theme and wrap width 0 the root span is [0, N)
\* for N output bytes, and the spans of the top-level blocks tile it: the
\* first starts at 0, each ends where the next starts, the last ends at N.
C2_RootSpanTilesOutput ==
    (wordWrap = 0 /\ Ended /\ out # <<>>) => RootSpanTiles

\* C3: whenever the word buffer is empty the byte offset counter equals the
\* number of bytes written to the sink so far.
C3_ByteOffsetCountsSinkBytes ==
    wordBuffer = <<>> => byteOffset = NBytes(out)

\* C4: every closed span N has Start <= End, its first child starts no
\* earlier than N, its last child ends no later than N, and each child ends
\* no later than the next one starts.
C4_SpanContainment ==
    \A n \in Closed :
        LET kids == spans[n].Children
        IN  /\ spans[n].Start <= spans[n].End
            /\ \A i \in 1 .. Len(kids) :
                   /\ spans[n].Start <= spans[kids[i]].Start
                   /\ spans[kids[i]].End <= spans[n].End
            /\ \A i \in 1 .. Len(kids) - 1 :
                   spans[kids[i]].End <= spans[kids[i + 1]].Start

\* A finished render whose root has two children, one of them with a child
\* of its own that covers bytes.
C4_Witness ==
    /\ pc = "done"
    /\ Len(spans[rootSpan].Children) >= 2
    /\ \E n \in 1 .. Len(spans) :
          /\ spans[n].Parent \notin {Nil, rootSpan}
          /\ spans[n].Start < spans[n].End

C6_LinesAreWrapWidthWide ==
    wordWrap > 0 =>
        \A i \in 1 .. Len(CompleteLines(out)) :
            measureText(CompleteLines(out)[i]) = wordWrap

C8_WrapperKeepsWords ==
    (pc = "done" /\ wordWrap > 0) =>
        /\ wordBuffer = <<>>
        /\ prefixAt = <<>> => Words(out) = Words(given)

\* C9: every line that gets visible content begins with the line prefix that
\* is active when the line is begun.
C9_LinesBeginWithPrefix ==
    \A i \in 1 .. Len(lineBegins) :
        LET b == lineBegins[i]
        IN  /\ b.pos + Len(b.prefix) - 1 <= Len(out)
            /\ SubSeq(out, b.pos, b.pos + Len(b.prefix) - 1) = b.prefix

\* C10: the line prefix is written only at the start of a line, so at most
\* once per line.
C10_PrefixOnlyAtLineStart ==
    \A i \in 1 .. Len(prefixAt) :
        prefixAt[i] = 1 \/ out[prefixAt[i] - 1] = NL


\* C11: with a theme, PushStyle of a style followed at once by PopStyle
\* leaves the terminal's foreground, background, bold, italic and underline
\* as they were before the push, whatever styles were pushed before.
C11_PushPopRestoresTerminal ==
    (styleTrail.call = "pop after push" /\ ~styleTrail.zero /\ fault = "none")
        => Terminal(out) = styleTrail.before

\* C12: with a theme, every PushStyle call pushes exactly one entry, so the
\* stack holds one entry for each unmatched PushStyle call and PopStyle never
\* finds the stack empty.
C12_EveryPushHasItsEntry ==
    /\ fault # "index out of range"
    /\ (theme # NoTheme /\ pc = "walking") => Len(styles) = pushes

\* The span of the node whose exit handler has just returned: the last child
\* of the innermost open span.
LastClosed ==
    LET kids == spans[Top(spanStack)].Children
    IN  spans[kids[Len(kids)]]

\* C13: after a render every node whose handler ran has exactly one span,
\* an AutoLink included.
C13_OneSpanPerNode ==
    pc = "done" =>
        \A id \in 1 .. nodes :
            Cardinality({i \in DOMAIN spans : spans[i].Node.id = id}) = 1

\* C14: the span of an Emphasis or of a Link rendered as text ends after the
\* closing marker, or after the closing bracket, destination and title: when
\* the exit handler returns, the span ends at the current byte offset.
C14_SpanCoversConstruct ==
    (/\ pc = "walking"
     /\ path # <<>>
     /\ Top(path).lastKid \in {"Emphasis", "Link"}
     /\ Top(path).kind \notin {"Emphasis", "Link"})
        => LastClosed.End = byteOffset

\* C15: a second render with the same Renderer starts from the initial byte
\* offset and last-span pointer, as the first did: its root span starts at
\* offset 0 and follows no span.
C15_SecondRenderStartsAfresh ==
    (renders > 0 /\ pc = "done")
        => spans[rootSpan].Start = 0 /\ spans[rootSpan].Prev = Nil

\* The kinds of block nodes.
BlockKinds ==
    {"Heading", "Paragraph", "Blockquote", "List", "ListItem", "FencedCodeBlock"}

\* C16: when a block node's exit handler returns, everything the block
\* wrote, its last buffered word included, is in the sink and a newline
\* follows it.
C16_BlockEndsAtFreshLine ==
    (/\ pc = "walking"
     /\ path # <<>>
     /\ Top(path).lastKid \in BlockKinds)
        => /\ wordBuffer = <<>>
           /\ out # <<>>
           /\ out[Len(out)] = NL

\* The walker has entered a table and none of its rows yet.
TableEntered == At({"Table"}) /\ Top(path).nkids = 0

\* The largest display width of the cells of column j.
RECURSIVE WidestIn(_, _)
WidestIn(rows, j) ==
    IF rows = <<>> THEN 0
    ELSE LET rest == WidestIn(Tail(rows), j)
             width == IF j <= Len(Head(rows)) THEN measureText(Head(rows)[j])
                      ELSE 0
         IN  IF width > rest THEN width ELSE rest

\* C17: the width of column j is the largest measured width of its cells,
\* the measured width being the number of display columns of the content:
\* cells a, bb over ccc, d give the widths 3 and 2.
C17_ColumnWidthIsWidestCell ==
    (TableEntered /\ Ok(Cur)) =>
        \A j \in DOMAIN Top(tableStack).columnWidths :
            Top(tableStack).columnWidths[j] = WidestIn(Top(path).attr.rows, j)

\* The display columns of a line at which a border rune other than the
\* horizontal one stands.
Uprights(line) ==
    {measureText(SubSeq(line, 1, i)) :
        i \in {k \in DOMAIN line : line[k] \in BorderRunes \ {borders.horizontal}}}

\* The lines of the output that hold a border rune.
TableLines ==
    SelectSeq(CompleteLines(out),
              LAMBDA line : \E k \in DOMAIN line : line[k] \in BorderRunes)

\* C18: the vertical borders of the header and body rows stand at the display
\* columns of the joins of the top, middle and bottom borders, in a document
\* that holds the table alone and is wide enough for it not to wrap.
C18_BordersAlign ==
    (/\ pc = "done"
     /\ wordWrap = TableWrapWidth
     /\ Len(spans[rootSpan].Children) = 1)
        => \A i, j \in DOMAIN TableLines :
               Uprights(TableLines[i]) = Uprights(TableLines[j])

\* The number of cells in the first n rows.
RECURSIVE CellsIn(_, _)
CellsIn(rows, n) == IF n = 0 THEN 0 ELSE Len(rows[n]) + CellsIn(rows, n - 1)

\* C19: while a cell is rendered in the second pass, cellIndex is the cell's
\* place among the cells in the order they were measured in, so that
\* cellWidths[cellIndex] is the width measured for this cell, columnIndex is
\* the cell's place in its row, both are in range and the column is not
\* narrower than the cell.
C19_CellIndicesMatch ==
    At({"TableCell"}) =>
        LET state == Top(tableStack)
            row == path[Len(path) - 1]
            table == path[Len(path) - 2]
        IN  /\ state.columnIndex = row.nkids - 1
            /\ state.cellIndex
                   = CellsIn(table.attr.rows, table.nkids - 1) + row.nkids - 1
            /\ state.columnIndex < Len(state.columnWidths)
            /\ state.cellIndex < Len(state.cellWidths)
            /\ state.cellWidths[state.cellIndex + 1]
                   = Measured(Cur, Top(path).attr).n
            /\ state.columnWidths[state.columnIndex + 1]
                   >= state.cellWidths[state.cellIndex + 1]

\* A cell of the second column of a body row is being rendered.
C19_Witness ==
    /\ At({"TableCell"})
    /\ Top(tableStack).rowIndex > 0
    /\ Top(tableStack).columnIndex = 1
    /\ Top(tableStack).cellIndex = 3
    /\ Top(path).nkids = 1

\* C20: the measuring pass writes nothing to the sink of the render and
\* changes no field of the renderer: when RenderTable has returned on enter,
\* all is as OpenBlock left it, but for the table state pushed.
C20_MeasuringLeavesRendererAlone ==
    TableEntered =>
        [Outer(Cur) EXCEPT !.tableStack = Pop(@)] = Top(path).attr.before

\* A table with four measured cells is entered after a paragraph has been
\* written.
C20_Witness ==
    /\ TableEntered
    /\ Len(Top(tableStack).cellWidths) = 4
    /\ Len(spans[rootSpan].Children) = 2
    /\ \E i \in DOMAIN out : out[i] = "c"
    /\ byteOffset > 0

\* C21: once a write to the sink has failed during a render, the handler
\* that made it returns the error, so the walk ends with that error, and no
\* node after the one being rendered is rendered.
C21_FailedWriteEndsRender ==
    sink.failed =>
        /\ pc = "faulted"
        /\ fault = "write error"
        /\ nodes <= sink.at + 1

\* The open nodes that have a span: all but the images that were shown.
Spanned == SelectSeq(path, LAMBDA e : e.kind # "ShownImage")

\* C22: with images on and a sink that takes every write, an image that
\* cannot be opened or decoded is rendered as text with a span of its own that
\* is open while the node is open, an image that is shown has no span and no
\* children, the render goes on without an error, and the open spans are
\* those of the open nodes other than shown images, whatever the nesting.
C22_ImagesKeepSpansBalanced ==
    (images /\ ~sink.fails) =>
        /\ fault = "none"
        /\ pc \in {"idle", "walking", "done"}
        /\ Len(spanStack) = Len(Spanned)
        /\ \A k \in DOMAIN spanStack :
               spans[spanStack[k]].Node.id = Spanned[k].id
        /\ \A i \in DOMAIN path :
               path[i].kind = "ShownImage" => i = Len(path) /\ path[i].nkids = 0
        /\ inImage = (path # <<>> /\ Top(path).kind = "ShownImage")
        /\ \A i \in DOMAIN path : path[i].kind = "Image" => ~path[i].attr.opens

\* An image that is shown inside the text of an image that could not be opened.
C22_Witness ==
    /\ images
    /\ ~sink.fails
    /\ Len(path) = 4
    /\ path[3].kind = "Image"
    /\ path[4].kind = "ShownImage"
    /\ inImage
    /\ \E i \in DOMAIN out : out[i] = ESC

\* The open lists, outermost first.
OpenLists == SelectSeq(path, LAMBDA e : e.kind = "List")

\* buf without the spaces at its end.
RECURSIVE Trimmed(_)
Trimmed(buf) ==
    IF buf # <<>> /\ Top(buf) = SP THEN Trimmed(Pop(buf)) ELSE buf

\* buf ends with the bytes of tail, and no digit stands before them.
EndsWithNumber(buf, tail) ==
    /\ Len(buf) >= Len(tail)
    /\ SubSeq(buf, Len(buf) - Len(tail) + 1, Len(buf)) = tail
    /\ Len(buf) > Len(tail) =>
           buf[Len(buf) - Len(tail)] \notin
               {"0", "1", "2", "3", "4", "5", "6", "7", "8", "9"}

\* C28: the item of an ordered list that k items precede is written as the
\* list's start plus k, the list's marker and a space; every open list has
\* its entry on the list stack, whose index is the start plus the items the
\* list has had so far, whatever lists its items hold.
C28_ItemsAreNumberedInOrder ==
    fault = "none" =>
        /\ Len(listStack) = Len(OpenLists)
        /\ \A i \in DOMAIN listStack :
               /\ listStack[i].marker = OpenLists[i].attr.marker
               /\ listStack[i].ordered = OpenLists[i].attr.ordered
               /\ listStack[i].index =
                      IF listStack[i].ordered
                      THEN OpenLists[i].attr.index + OpenLists[i].nkids
                      ELSE OpenLists[i].attr.index
        /\ (/\ path # <<>>
            /\ Top(path).kind = "ListItem"
            /\ Top(path).nkids = 0
            /\ Top(listStack).ordered)
           => EndsWithNumber(Trimmed(given),
                  FormatInt(Top(OpenLists).attr.index + Top(OpenLists).nkids - 1)
                  \o <<Top(listStack).marker>>)
              /\ Top(given) = SP

\* The second item of an ordered list that starts at 9, after a first item
\* that holds an ordered list of its own.
C28_Witness ==
    /\ fault = "none"
    /\ Len(path) = 3
    /\ path[2].kind = "List"
    /\ path[2].attr.index = 9
    /\ path[2].nkids = 2
    /\ Top(path).kind = "ListItem"
    /\ Top(path).nkids = 0
    /\ \E i \in DOMAIN spans :
           /\ spans[i].Node.kind = "List"
           /\ spans[i].Node.id = 4
    /\ given[Len(given) - 3] = "1" /\ given[Len(given) - 2] = "0"

\* A code span's content asks for padding: it is not empty, not all
\* whitespace, and begins or ends with a backtick or a space.
NeedsPadding(content) ==
    /\ content # <<>>
    /\ \E i \in DOMAIN content : content[i] \notin {SP, NL, "\t"}
    /\ (Head(content) \in {Backtick, SP} \/ Top(content) \in {Backtick, SP})

\* What RenderCodeSpan is to hand to Write for a code span.
PaddedCodeSpan(in) ==
    LET content == Concat(in.segments)
        pad == IF NeedsPadding(content) THEN <<SP>> ELSE <<>>
    IN  Repeat(Backtick, in.backticks) \o pad \o content \o pad
        \o Repeat(Backtick, in.backticks)

\* C29: RenderCodeSpan writes the delimiter, the content and the delimiter,
\* with one space on each side of the content exactly when the content of all
\* the segments together is not empty, not all whitespace, and begins or
\* ends with a backtick or a space.
C29_CodeSpanPaddedWhenNeeded ==
    [][(/\ nodes' = nodes + 1
        /\ fault' = "none"
        /\ path'[Len(path')].lastKid = "CodeSpan")
       => \E in \in SegmentedCodeSpanInputs :
              given' = given \o PaddedCodeSpan(in)]_vars

\* c occurs in title without a backslash before it.
Unescaped(title, c) ==
    \E i \in DOMAIN title : title[i] = c /\ (i = 1 \/ title[i - 1] # "\\")

\* o ends with the title between two equal quotes, before the closing
\* parenthesis if that has reached the sink, and the quote does not occur
\* unescaped in the title.
TitleDelimited(o, title) ==
    LET q == IF Top(o) = ")" THEN Pop(o) ELSE o
        n == Len(q)
    IN  /\ n >= Len(title) + 3
        /\ q[n] \in {"\"", "'"}
        /\ q[n - Len(title) - 1] = q[n]
        /\ q[n - Len(title) - 2] = SP
        /\ SubSeq(q, n - Len(title), n - 1) = title
        /\ ~Unescaped(title, q[n])

\* C30: the title of an inline link is written between two equal quotes of
\* a kind that does not occur unescaped in the title.
C30_TitleDelimiterNotInTitle ==
    [][(/\ path # <<>>
        /\ Top(path).kind = "Link"
        /\ Len(path') < Len(path)
        /\ fault' = "none"
        /\ Top(path).attr.refType = "none"
        /\ Top(path).attr.title # <<>>)
       => TitleDelimited(out', Top(path).attr.title)]_vars

\* C23: DecodeCommand does not crash, and for a buffer that holds no
\* well-formed command at position 0 it returns 0, so that DecodeCommands
\* returns no command and the size 0.
C23_MalformedReturnsZero ==
    /\ kitty.pc # "panic"
    /\ (kitty.pc = "done" /\ kitty.flaw # "none") =>
           (kitty.ret = 0 /\ kitty.size = 0 /\ kitty.commands = <<>>)

\* DecodeCommands has returned after a command without the more flag or
\* after a DecodeCommand call that returned 0, with every command before the
\* last carrying the more flag.
StoppedInTime ==
    /\ \A i \in 1..(Len(kitty.commands) - 1) : kitty.commands[i].More
    /\ kitty.ret = 0 \/ (kitty.commands # <<>> /\ ~Top(kitty.commands).More)

\* C24: DecodeCommand and DecodeCommands terminate on every input, and
\* DecodeCommands stops at the first command without the more flag or at the
\* first position where DecodeCommand returns 0.
C24_DecodingTerminates ==
    /\ <>(kitty.pc \in {"done", "panic"})
    /\ [](kitty.pc = "done" => StoppedInTime)

\* The payloads of the commands one after the other.
RECURSIVE Payloads(_)
Payloads(commands) ==
    IF commands = <<>> THEN <<>>
    ELSE Head(commands).Payload \o Payloads(Tail(commands))

\* DecodeCommands has returned the frames that Encode wrote.
RoundTrip ==
    /\ kitty.pc = "done"
    /\ kitty.size = Len(Concat(kitty.writes))
    /\ Len(kitty.commands) * 4 = Len(kitty.writes)
    /\ kitty.commands # <<>>
    /\ kitty.commands[1].Format = <<100, 0, 0, 0>>
    /\ kitty.commands[1].Action = "T"
    /\ \A i \in DOMAIN kitty.commands :
           kitty.commands[i].More = (i < Len(kitty.commands))
    /\ Payloads(kitty.commands) = kitty.png

\* C25: DecodeCommands applied to what Encode wrote for an image returns
\* having consumed all of it, with one command per frame in order, format 100
\* and action T on the first, the more flag on all but the last, and the
\* payloads together the image data.
C25_DecodeInvertsEncode == (kitty.pc = "image") ~> RoundTrip

\* The k-th frame Encode wrote: its opening, its more key, its payload.
Frame(k) ==
    [open |-> kitty.writes[4 * k - 3], more |-> kitty.writes[4 * k - 2],
     payload |-> kitty.writes[4 * k - 1], end |-> kitty.writes[4 * k]]

FrameCount == Len(kitty.writes) \div 4

\* C26: Encode writes the base64 text of the image as frames one after the
\* other: no payload longer than FrameSize, m=1 on every frame but the last
\* and m=0 on the last, the format and action keys on the first frame only,
\* the payloads together the whole base64 text, and the count returned the
\* number of bytes written.
C26_EncodeFramesWholeImage ==
    (kitty.pc \notin {"none", "image", "frames"} /\ kitty.png # <<>>) =>
        /\ Len(kitty.writes) = 4 * FrameCount
        /\ \A k \in 1..FrameCount :
               /\ Len(Frame(k).payload) <= FrameSize
               /\ Frame(k).more =
                      <<"m", "=", IF k < FrameCount THEN "1" ELSE "0", ";">>
               /\ Frame(k).open =
                      IF k = 1
                      THEN <<ESC, "_", "G", "f", "=", "1", "0", "0", ",",
                             "a", "=", "T", ",">>
                      ELSE <<ESC, "_", "G">>
               /\ Frame(k).end = <<ESC, "\\">>
        /\ Concat([k \in 1..FrameCount |-> Frame(k).payload])
               = Base64Encode(kitty.png)
        /\ kitty.written = Len(Concat(kitty.writes))

\* The spans a selection call from the span s may select: those after s in
\* the preorder list for SelectNext, those before s for SelectPrevious, whose
\* node the selector accepts.  OpenSpan numbers the spans in preorder.
Matches(op, selector, s) ==
    {i \in DOMAIN spans :
        /\ Selector(selector, spans[i].Node).ok
        /\ IF op = "SelectNext" THEN i > s ELSE i < s}

\* The nearest of the spans of a non-empty set to the span a call began at.
Nearest(op, matches) ==
    CHOOSE i \in matches :
        \A j \in matches : IF op = "SelectNext" THEN i <= j ELSE i >= j

\* C27: after SelectNext or SelectPrevious on a drawn view, the selection is
\* the nearest span after (before) the selection the call began with, or the
\* root span when nothing was selected, whose node satisfies the selector,
\* the immediate neighbour included; when no such span exists the selection
\* is the one the call began with.
C27_SelectsNearestMatch ==
    view.pc # "none" /\ view.last.op # "none" /\ view.spanTree # Nil =>
        view.selection =
            IF Matches(view.last.op, view.last.selector,
                       IF view.last.from = Nil THEN view.spanTree
                       ELSE view.last.from) = {}
            THEN view.last.from
            ELSE Nearest(view.last.op,
                         Matches(view.last.op, view.last.selector,
                                 IF view.last.from = Nil THEN view.spanTree
                                 ELSE view.last.from))

\* C36: after any well-nested sequence of PushPrefix, PushIndent and
\* PopPrefix calls the line prefix is the concatenation of the entries of the
\* prefix stack from bottom to top, the entries being the texts of the pushes
\* not yet popped, and a PopPrefix removes from the end of the prefix exactly
\* the text that the matching push added.
C36_PrefixIsStackConcatenated ==
    /\ prefix = Concat(prefixStack)
    /\ prefixStack = api.pushed
    /\ api.op = "PopPrefix" => api.before = prefix \o api.arg

\* A PopPrefix has removed the text of an inner push and left the text of an
\* outer one.
C36_Witness ==
    /\ api.op = "PopPrefix"
    /\ api.arg # <<>>
    /\ prefix # <<>>
    /\ Len(prefixStack) = 1

\* C38: a Write that returns a nil error returns the number of bytes of its
\* buffer, with or without newlines in it and with wrapping on or off.
C38_WriteReportsLen ==
    (api.op = "Write" /\ fault = "none") => api.ret = NBytes(api.arg)

\* The smallest multiple of w that is at least n, for w > 0.
MultipleAtLeast(w, n) == w * ((n + w - 1) \div w)

\* C35: with a wrap width W > 0, a line that write ends with a newline, its
\* content L display columns wide, is padded to the smallest multiple of W
\* that is at least max(L, W).
C35_PaddedToNextMultiple ==
    (wordWrap > 0 /\ api.line # NoLine) =>
        api.line.padded
            = MultipleAtLeast(wordWrap,
                              IF api.line.content > wordWrap
                              THEN api.line.content ELSE wordWrap)

\* The title of the link between its delimiters, as it is written.
QuotedTitle(in) ==
    <<SP, linkTitleDelimiter(in.title)>> \o in.title
        \o <<linkTitleDelimiter(in.title)>>

\* o ends with the bytes of tail.
EndsWith(o, tail) ==
    /\ Len(o) >= Len(tail)
    /\ SubSeq(o, Len(o) - Len(tail) + 1, Len(o)) = tail

\* C34: with word wrapping active, when RenderLink has written the end of an
\* inline link with a title, the title has reached the sink only after the
\* closing bracket, the opening parenthesis and the destination that were
\* written before it: a sink that ends with the quoted title holds them right
\* before it.
C34_TitleFollowsDestination ==
    [][(/\ path # <<>>
        /\ Top(path).kind = "Link"
        /\ Len(path') < Len(path)
        /\ fault' = "none"
        /\ wordWrap > 0
        /\ Top(path).attr.refType = "none"
        /\ Top(path).attr.title # <<>>
        /\ EndsWith(out', QuotedTitle(Top(path).attr)))
       => EndsWith(out', <<"]", "(">> \o escapeLinkDest(Top(path).attr.dest)
                             \o QuotedTitle(Top(path).attr))]_vars


\* C37: no handler of a render pops or indexes an empty list, table,
\* open-block, word-wrap, prefix or span stack, and when the render returns
\* without an error the list, table, open-block, prefix and span stacks are
\* empty.
C37_StacksBalanced ==
    /\ fault # "out of range"
    /\ (pc \in {"done", "stopped"} /\ fault = "none") =>
           /\ listStack = <<>>
           /\ tableStack = <<>>
           /\ openBlocks = <<>>
           /\ prefixStack = <<>>
           /\ spanStack = <<>>


\* The lines of the view that hold the byte offset of the call.
Holding ==
    {i \in DOMAIN view.lines :
        view.lines[i].start <= view.loop.offset
        /\ view.loop.offset < view.lines[i].end}

\* C40: scrollToOffset returns for every offset and every list of contiguous
\* lines, the offsets at and beyond the end of the last line included, and
\* when it has returned lineOffset is the index of the line that holds the
\* offset, and is what it was when no line holds it.
C40_ScrollReturns ==
    /\ <>(view.pc = "returned")
    /\ [](view.pc = "returned" =>
             IF Holding = {} THEN view.lineOffset = view.last.from
             ELSE view.lineOffset + 1 \in Holding)


\* C39: whatever calls of SetText, Clear, SetWrap, Draw, SelectNext and
\* SelectPrevious were made, once the view is drawn with a render of the text
\* and wrap flag it has now, a selection that is not nil is a span that this
\* render allocated, and selectionStart <= selectionEnd with both inside the
\* span's [Start, End].
C39_SelectionInNewestTree ==
    (view.pc = "drawn" /\ view.current /\ view.selection # Nil) =>
        /\ view.selection > view.mark
        /\ view.selectionStart <= view.selectionEnd
        /\ spans[view.selection].Start <= view.selectionStart
        /\ view.selectionEnd <= spans[view.selection].End


\* C31: every call that reads or writes the draw state of the view (lines,
\* span tree, offsets, selection) holds the view's mutex while it does, so
\* none of SetText, SetWrap, the input handler, SelectNext and
\* SelectPrevious runs while a Draw holds the mutex.
C31_DrawStateUnderMutex ==
    view.access.op # "none" =>
        /\ view.access.holds
        /\ view.access.op # "Draw" => ~view.access.drawing


\* The headings of the indexed document, and those with an anchor, in source
\* order.
HeadingsOf(doc) == {i \in DOMAIN doc : doc[i].kind = "Heading"}

RECURSIVE Ascending(_)
Ascending(set) ==
    IF set = {} THEN <<>>
    ELSE LET least == CHOOSE i \in set : \A j \in set : i <= j
         IN  <<least>> \o Ascending(set \ {least})

\* The nearest heading before heading i of a strictly smaller level, the
\* document (node 0) when there is none.
Enclosing(doc, i) ==
    LET before == {j \in HeadingsOf(doc) : j < i /\ doc[j].level < doc[i].level}
    IN  IF before = {} THEN 0 ELSE CHOOSE j \in before : \A k \in before : k <= j

\* The next heading after heading i whose level is not greater, nil when
\* there is none.
Closing(doc, i) ==
    LET after == {j \in HeadingsOf(doc) : j > i /\ doc[j].level <= doc[i].level}
    IN  IF after = {} THEN Nil ELSE CHOOSE j \in after : \A k \in after : j <= k

\* How often Section id is a subsection of a Section that starts at node.
TimesUnder(id, node) ==
    Cardinality({<<p, k>> \in (DOMAIN index.sections) \X (1..Len(index.sections)) :
                    /\ index.sections[p].Start = node
                    /\ k \in DOMAIN index.sections[p].Subsections
                    /\ index.sections[p].Subsections[k] = id})

\* C32: when Index returns, there is exactly one Section for each heading of
\* the document; Lookup(anchor) returns the Sections of the headings with
\* that anchor, one each, in source order; each heading's Section is once in
\* the table of contents, under the Section of the nearest heading before it
\* of a strictly smaller level or under the root, and its End is the next
\* heading whose level is not greater than its own.
C32_OneSectionPerHeading ==
    index.pc = "indexed" =>
        /\ \A i \in HeadingsOf(index.doc) :
              Cardinality({s \in DOMAIN index.sections :
                              s > 1 /\ index.sections[s].Start = i}) = 1
        /\ \A a \in Anchors :
              [k \in DOMAIN index.anchors[a] |->
                   index.sections[index.anchors[a][k]].Start]
              = Ascending({i \in HeadingsOf(index.doc) :
                              GitHubFlavoredMarkdown(index.doc[i].text) = a})
        /\ \A s \in DOMAIN index.sections :
              s > 1 =>
                 /\ TimesUnder(s, Enclosing(index.doc, index.sections[s].Start)) = 1
                 /\ index.sections[s].End
                    = Closing(index.doc, index.sections[s].Start)

====
